---------------------------- MODULE Spec2Model ----------------------------
(***************************************************************************)
(* Cost-modelling and sensitivity engine of the Bedrock cost simulator.    *)
(*                                                                         *)
(* Numbers.  The engine computes with JavaScript numbers, and so does this  *)
(* module: every +, -, * and / below is the IEEE-754 binary64 operation,   *)
(* applied in the order in which the code applies it, so that a comparison *)
(* or a Math.round sees the rounded value the code sees.  Token counts,    *)
(* student counts and turn counts are integers, exact in binary64, and are *)
(* kept as integers where the code keeps them integral.  A null price is   *)
(* NULL and JavaScript's Infinity is INF.  In the cost functions students, *)
(* reqsPerStudent, sysTokens, ctxTokens, outputTokens and summarySize are  *)
(* integers; subTokens is a number (the caller passes                      *)
(* getEffectiveSubTokens), instTokens is a number in the four flat         *)
(* strategies (getEffectiveInstTokens) and the integer history cap in the  *)
(* summarization strategies; prices and tierMultiplier are numbers.        *)
(***************************************************************************)
EXTENDS Integers, Sequences, FiniteSets, TLC

VARIABLES
    pc,                   \* which computation of the run has been applied
    args,                 \* the inputs of the run (workload, price list, options)
    results,              \* workload-simulator `results` memo
    sumStrategies,        \* workload-simulator `sumStrategies` memo
    summarizationResult,  \* workload-simulator `summarizationResult` memo
    sim,                  \* SummarizationSim returned by simulateSummarization
    avgHistory,           \* value returned by computeAvgHistoryTokens
    rawData,              \* paramSensitivityData: the sweep points
    ri,                   \* scan index of the stabilization pass
    crossovers,           \* paramCrossoverLabels
    subAtTurn,            \* a call of computeSubTokensAtTurn and the value it returned
    perStudent,           \* computeSumCacheSummary's per-student loop: turn t and the accumulators
    historyAtTurn,        \* computeHistoryAtTurn's value at each turn of the conversation
    pricingModule,        \* pricing-data.ts: cachedData, the fetchPricingData calls and the network requests made
    app,                  \* App component: ready, error, and what rendering the router did
    interactions          \* workload simulator: handlers and effects run since the mount

vars == <<pc, args, results, sumStrategies, summarizationResult, sim, avgHistory, rawData, ri, crossovers, subAtTurn, perStudent, historyAtTurn, pricingModule, app, interactions>>

-----------------------------------------------------------------------------
(* JavaScript numbers: IEEE-754 binary64 with round-to-nearest, ties-to-even *)
(*                                                                         *)
(* A finite number is [s |-> sign, m |-> magnitude, e |-> exponent] and    *)
(* stands for s * m * 2^e: s is -1, 0 or 1 and m is an odd natural of at   *)
(* most 53 bits, written as its base-32768 limbs, lowest first             *)
(* (1000 = 125 * 2^3 is [s |-> 1, m |-> <<125>>, e |-> 3]).  Every double  *)
(* in the normal range has exactly one such form, so = on these records is *)
(* === on the numbers (0 and -0 are one value here).  The exponent has no  *)
(* bounds: no cost gets near 2^-1022 or 2^1024.                            *)

B == 2 ^ 15
LimbBits == CHOOSE k \in 1..30 : 2 ^ k = B
Precision == 52 + 1

NULL == [null |-> TRUE]
INF == [inf |-> TRUE]
NONE == [none |-> TRUE]
Zero == [s |-> 0, m |-> <<>>, e |-> 0]

\* naturals as limb sequences, lowest limb first, no zero limb on top
Limb(a, i) == IF i >= 1 /\ i <= Len(a) THEN a[i] ELSE 0

\* Evaluation.  A definition F of some length is written in two parts,
\*     F(x) == Call("F", <<x>>)   and   F_body(x) == its text,
\* and Call, at the end of the module, applies the body that is named.  F
\* and F_body are one operator: the indirection only lets the evaluator
\* apply a definition where it is used instead of copying its text there.
RECURSIVE Call(_, _)

BTrim(a) == Call("BTrim", <<a>>)
BTrim_body(a) ==
    LET nz == {i \in 1..Len(a) : a[i] # 0}
    IN  IF nz = {} THEN <<>> ELSE SubSeq(a, 1, CHOOSE i \in nz : \A j \in nz : j <= i)

\* 0 <= n < 2^31
BFromInt(n) == Call("BFromInt", <<n>>)
BFromInt_body(n) == BTrim(<<n % B, (n \div B) % B, n \div (B * B)>>)

\* a < 2^31
BToInt(a) == Call("BToInt", <<a>>)
BToInt_body(a) == Limb(a, 1) + B * Limb(a, 2) + B * B * Limb(a, 3)

RECURSIVE BAddFrom(_, _, _, _)
BAddFrom(a, b, i, c) ==
    IF i > Len(a) /\ i > Len(b) THEN (IF c = 0 THEN <<>> ELSE <<c>>)
    ELSE LET s == Limb(a, i) + Limb(b, i) + c
         IN  <<s % B>> \o BAddFrom(a, b, i + 1, s \div B)

BAdd(a, b) == Call("BAdd", <<a, b>>)
BAdd_body(a, b) == BAddFrom(a, b, 1, 0)

RECURSIVE BSubFrom(_, _, _, _)
BSubFrom(a, b, i, c) ==
    IF i > Len(a) THEN <<>>
    ELSE LET s == a[i] - Limb(b, i) - c
         IN  <<s % B>> \o BSubFrom(a, b, i + 1, IF s < 0 THEN 1 ELSE 0)

\* a - b for a >= b
BSub(a, b) == Call("BSub", <<a, b>>)
BSub_body(a, b) == BTrim(BSubFrom(a, b, 1, 0))

BLess(a, b) ==
    IF Len(a) # Len(b) THEN Len(a) < Len(b)
    ELSE \E i \in 1..Len(a) : a[i] < b[i] /\ \A j \in (i + 1)..Len(a) : a[j] = b[j]

RECURSIVE BMulSmallFrom(_, _, _, _)
BMulSmallFrom(a, d, i, c) ==
    IF i > Len(a) THEN (IF c = 0 THEN <<>> ELSE <<c>>)
    ELSE LET p == a[i] * d + c
         IN  <<p % B>> \o BMulSmallFrom(a, d, i + 1, p \div B)

\* a * d for 0 <= d < B
BMulSmall(a, d) == Call("BMulSmall", <<a, d>>)
BMulSmall_body(a, d) == IF d = 0 THEN <<>> ELSE BMulSmallFrom(a, d, 1, 0)

RECURSIVE BMulFrom(_, _, _)
BMulFrom(a, b, j) ==
    IF j > Len(b) THEN <<>>
    ELSE BAdd(BMulSmall(a, b[j]), <<0>> \o BMulFrom(a, b, j + 1))

BMul(a, b) == Call("BMul", <<a, b>>)
BMul_body(a, b) == BTrim(BMulFrom(a, b, 1))

RECURSIVE BDivSmallFrom(_, _, _)
BDivSmallFrom(a, d, i) ==
    IF i > Len(a) THEN [q |-> <<>>, r |-> 0]
    ELSE LET hi == BDivSmallFrom(a, d, i + 1)
             cur == hi.r * B + a[i]
         IN  [q |-> <<cur \div d>> \o hi.q, r |-> cur % d]

\* quotient and remainder of a by d, 0 < d < B
BDivSmall(a, d) == Call("BDivSmall", <<a, d>>)
BDivSmall_body(a, d) ==
    LET x == BDivSmallFrom(a, d, 1)
    IN  [q |-> BTrim(x.q), r |-> x.r]

\* a * 2^k
BShl(a, k) == Call("BShl", <<a, k>>)
BShl_body(a, k) == IF a = <<>> THEN <<>> ELSE BMulSmall([i \in 1..(k \div LimbBits) |-> 0] \o a, 2 ^ (k % LimbBits))

\* a \div 2^k
BShr(a, k) == Call("BShr", <<a, k>>)
BShr_body(a, k) ==
    IF k \div LimbBits >= Len(a) THEN <<>>
    ELSE BDivSmall(SubSeq(a, (k \div LimbBits) + 1, Len(a)), 2 ^ (k % LimbBits)).q

\* number of bits of x, 0 <= x < 2^30
IntBitLen(x) == CHOOSE k \in 0..30 : x < 2 ^ k /\ (k = 0 \/ x >= 2 ^ (k - 1))

BBitLen(a) == Call("BBitLen", <<a>>)
BBitLen_body(a) == IF a = <<>> THEN 0 ELSE LimbBits * (Len(a) - 1) + IntBitLen(a[Len(a)])

\* bit k of a, bit 0 the lowest
BBit(a, k) == Call("BBit", <<a, k>>)
BBit_body(a, k) == (Limb(a, (k \div LimbBits) + 1) \div (2 ^ (k % LimbBits))) % 2

\* one of the k lowest bits of a is set
BLowBits(a, k) == Call("BLowBits", <<a, k>>)
BLowBits_body(a, k) ==
    \/ \E i \in 1..(k \div LimbBits) : Limb(a, i) # 0
    \/ Limb(a, (k \div LimbBits) + 1) % (2 ^ (k % LimbBits)) # 0

\* number of zero bits below the lowest set bit of a, a # 0
BTrailingZeros(a) == Call("BTrailingZeros", <<a>>)
BTrailingZeros_body(a) ==
    LET i == CHOOSE j \in 1..Len(a) : a[j] # 0 /\ \A l \in 1..(j - 1) : a[l] = 0
    IN  LimbBits * (i - 1) + (CHOOSE k \in 0..LimbBits : a[i] % (2 ^ (k + 1)) # 0)

\* long division by d of two limbs or more with its top limb >= B / 2: one quotient limb,
\* estimated from below by the top limbs and corrected upwards
RECURSIVE BDivCorrect(_, _, _)
BDivCorrect(r, d, q) == IF BLess(r, d) THEN [q |-> q, r |-> r] ELSE BDivCorrect(BSub(r, d), d, q + 1)

BDivDigit(r, d) == Call("BDivDigit", <<r, d>>)
BDivDigit_body(r, d) ==
    LET n == Len(d)
        est == (Limb(r, n + 1) * B + Limb(r, n)) \div (d[n] + 1)
        qhat == IF est > B - 1 THEN B - 1 ELSE est
    IN  BDivCorrect(BSub(r, BMulSmall(d, qhat)), d, qhat)

\* limbs i down to 1 of a brought down one at a time onto the remainder r; q holds the quotient limbs found
RECURSIVE BDivBigFrom(_, _, _, _, _)
BDivBigFrom(a, d, i, r, q) ==
    IF Len(r) >= 0 /\ Len(q) >= 0 /\ i = 0 THEN [q |-> q, r |-> r]
    ELSE LET x == BDivDigit(BTrim(<<a[i]>> \o r), d)
         IN  BDivBigFrom(a, d, i - 1, x.r, <<x.q>> \o q)

\* quotient of a by d # 0 and whether the division left a remainder
BDiv(a, d) == Call("BDiv", <<a, d>>)
BDiv_body(a, d) ==
    IF Len(d) = 1 THEN LET x == BDivSmall(a, d[1]) IN [q |-> x.q, inexact |-> x.r # 0]
    ELSE LET sh == LimbBits - IntBitLen(d[Len(d)])
             n == BShl(a, sh)
             x == BDivBigFrom(n, BShl(d, sh), Len(n), <<>>, <<>>)
         IN  [q |-> BTrim(x.q), inexact |-> x.r # <<>>]

\* the number s * n * 2^e for n # 0 of at most 53 bits
Pack(s, n, e) == Call("Pack", <<s, n, e>>)
Pack_body(s, n, e) ==
    LET z == BTrailingZeros(n)
    IN  [s |-> s, m |-> BShr(n, z), e |-> e + z]

\* the double nearest to a value of sign s and magnitude n * 2^e, or just above it when sticky
\* (then n has more than 53 bits); a value half way between two doubles goes to the even one
RoundNum(s, n, e, sticky) == Call("RoundNum", <<s, n, e, sticky>>)
RoundNum_body(s, n, e, sticky) ==
    IF n = <<>> THEN Zero
    ELSE LET len == BBitLen(n)
         IN  IF len <= Precision THEN Pack(s, n, e)
             ELSE LET sh == len - Precision
                      q == BShr(n, sh)
                      up == BBit(n, sh - 1) = 1 /\ (sticky \/ BLowBits(n, sh - 1) \/ BBit(q, 0) = 1)
                  IN  Pack(s, IF up THEN BAdd(q, <<1>>) ELSE q, e + sh)

\* the integer n, |n| < 2^31, as a number
R(n) == Call("R", <<n>>)
R_body(n) == IF n = 0 THEN Zero ELSE Pack(IF n < 0 THEN -1 ELSE 1, BFromInt(IF n < 0 THEN -n ELSE n), 0)

RNeg(x) == [s |-> -x.s, m |-> x.m, e |-> x.e]

\* x + y before rounding: sign, magnitude and exponent
ExactSum(x, y) == Call("ExactSum", <<x, y>>)
ExactSum_body(x, y) ==
    LET e == IF x.e < y.e THEN x.e ELSE y.e
        a == BShl(x.m, x.e - e)
        b == BShl(y.m, y.e - e)
    IN  IF x.s = y.s THEN [s |-> x.s, n |-> BAdd(a, b), e |-> e]
        ELSE IF BLess(a, b) THEN [s |-> y.s, n |-> BSub(b, a), e |-> e]
        ELSE IF a = b THEN [s |-> 0, n |-> <<>>, e |-> 0]
        ELSE [s |-> x.s, n |-> BSub(a, b), e |-> e]

\* an exponent gap above which the smaller term is below half a unit in the last place of the larger
MaxShift == 2 ^ 7

\* x + y
RAdd(x, y) == Call("RAdd", <<x, y>>)
RAdd_body(x, y) ==
    IF x.s = 0 THEN y
    ELSE IF y.s = 0 THEN x
    ELSE IF x.e - y.e > MaxShift THEN x
    ELSE IF y.e - x.e > MaxShift THEN y
    ELSE LET z == ExactSum(x, y) IN RoundNum(z.s, z.n, z.e, FALSE)

\* x - y
RSub(x, y) == Call("RSub", <<x, y>>)
RSub_body(x, y) == RAdd(x, RNeg(y))

\* x * y
RMul(x, y) == Call("RMul", <<x, y>>)
RMul_body(x, y) ==
    IF x.s = 0 \/ y.s = 0 THEN Zero
    ELSE RoundNum(x.s * y.s, BMul(x.m, y.m), x.e + y.e, FALSE)

\* x / y for y # 0: the quotient of the magnitudes taken to 55 bits or more, then rounded
RDiv(x, y) == Call("RDiv", <<x, y>>)
RDiv_body(x, y) ==
    IF x.s = 0 THEN Zero
    ELSE LET need == BBitLen(y.m) + Precision + 2 - BBitLen(x.m)
             k == IF need > 0 THEN need ELSE 0
             d == BDiv(BShl(x.m, k), y.m)
         IN  RoundNum(x.s * y.s, d.q, x.e - y.e - k, d.inexact)

\* the decimal literal n / d, e.g. 0.003 is Dec(3, 1000): the double nearest to it
Dec(n, d) == Call("Dec", <<n, d>>)
Dec_body(n, d) == RDiv(R(n), R(d))

\* -1, 0, 1 as x is below, equal to, above y
Compare(x, y) == Call("Compare", <<x, y>>)
Compare_body(x, y) ==
    IF x.s # y.s THEN (IF x.s < y.s THEN -1 ELSE 1)
    ELSE IF x.s = 0 THEN 0
    ELSE LET tx == x.e + BBitLen(x.m)
             ty == y.e + BBitLen(y.m)
         IN  IF tx # ty THEN (IF tx < ty THEN -x.s ELSE x.s)
             ELSE ExactSum(x, RNeg(y)).s

\* x < y, x <= y; Infinity is above every number
RLt(x, y) == Call("RLt", <<x, y>>)
RLt_body(x, y) ==
    IF x = INF THEN FALSE
    ELSE IF y = INF THEN TRUE
    ELSE Compare(x, y) < 0

RLe(x, y) == Call("RLe", <<x, y>>)
RLe_body(x, y) == x = y \/ RLt(x, y)

\* the margin within which two amounts computed in a different order are taken as equal
Tolerance == Call("Tolerance", <<>>)
Tolerance_body == Dec(1, 1000000000)

\* x and y differ by no more than Tolerance
Close(x, y) == Call("Close", <<x, y>>)
Close_body(x, y) == RLe(RSub(x, y), Tolerance) /\ RLe(RSub(y, x), Tolerance)

RMax(x, y) == Call("RMax", <<x, y>>)
RMax_body(x, y) == IF RLt(x, y) THEN y ELSE x

RMin(x, y) == Call("RMin", <<x, y>>)
RMin_body(x, y) == IF RLt(y, x) THEN y ELSE x

\* tokens / 1000
Per1k(tokens) == Call("Per1k", <<tokens>>)
Per1k_body(tokens) == RDiv(tokens, R(1000))

\* Math.ceil(a / b) for integers a and b > 0: the double a / b is an integer only when b divides a
CeilDiv(a, b) == -((-a) \div b)

\* Math.floor(x) for |x| < 2^31
Floor(x) == Call("Floor", <<x>>)
Floor_body(x) ==
    IF x.s = 0 THEN 0
    ELSE IF x.e >= 0 THEN x.s * BToInt(BShl(x.m, x.e))
    ELSE LET n == BToInt(BShr(x.m, -x.e))
         IN  IF x.s > 0 THEN n ELSE -(n + 1)

\* Math.round(x) for |x| < 2^31: floor(x + 0.5) taken exactly, halves go up
Round(x) == Call("Round", <<x>>)
Round_body(x) ==
    IF x.s = 0 \/ x.e >= 0 THEN Floor(x)
    ELSE IF x.s > 0 THEN Floor(x) + BBit(x.m, -x.e - 1)
    ELSE Floor(x) + (IF BBit(x.m, -x.e - 1) = 0 \/ x.e = -1 THEN 1 ELSE 0)

\* a ?? 0
OrZero(price) == IF price = NULL THEN Zero ELSE price

\* a ?? b
OrElse(price, fallback) == IF price = NULL THEN fallback ELSE price

RECURSIVE SumSeq(_)
SumSeq(s) == IF s = <<>> THEN 0 ELSE Head(s) + SumSeq(Tail(s))

-----------------------------------------------------------------------------
(* Constants of the engine *)

CHARS_PER_TOKEN == 4
GUARDRAILS_COST_PER_1K_UNITS == Call("GUARDRAILS_COST_PER_1K_UNITS", <<>>)
GUARDRAILS_COST_PER_1K_UNITS_body == Dec(3, 20)

\* getCacheWritePrice that ignores the requested TTL
CacheWritePriceFiveMinuteOnly(model, cacheTTL) == OrZero(model.pricing.cache_write_1k)

getCacheWritePrice(model, cacheTTL) == Call("getCacheWritePrice", <<model, cacheTTL>>)
getCacheWritePrice_body(model, cacheTTL) ==
    LET p == model.pricing
    IN  IF cacheTTL = "1hour" /\ p.cache_write_1hour_1k # NULL
        THEN p.cache_write_1hour_1k
        ELSE OrZero(p.cache_write_1k)

Breakdown(cacheWrite, cacheRead, freshInput, output) == Call("Breakdown", <<cacheWrite, cacheRead, freshInput, output>>)
Breakdown_body(cacheWrite, cacheRead, freshInput, output) ==
    [cacheWrite |-> cacheWrite, cacheRead |-> cacheRead, freshInput |-> freshInput, output |-> output,
     guardrails |-> R(0),
     total |-> RAdd(RAdd(RAdd(cacheWrite, cacheRead), freshInput), output)]

\* computeStrategyA with the cached span read at the fresh-input price
StrategyAReadAtInputPrice(model, students, reqsPerStudent, sysTokens, ctxTokens, subTokens, instTokens, outputTokens, tierMultiplier, cacheTTL) ==
    LET p == model.pricing
        pInput == RMul(p.input_1k, tierMultiplier)
        pOutput == RMul(p.output_1k, tierMultiplier)
        pWrite == RMul(getCacheWritePrice(model, cacheTTL), tierMultiplier)
        totalRequests == students * reqsPerStudent
        cachedTokens == R(sysTokens + ctxTokens)
        freshTokens == RAdd(subTokens, instTokens)
        cacheWrite == RMul(Per1k(cachedTokens), pWrite)
        cacheRead == RMul(RMul(R(totalRequests - 1), Per1k(cachedTokens)), pInput)
        freshInput == RMul(RMul(R(totalRequests), Per1k(freshTokens)), pInput)
        output == RMul(RMul(R(totalRequests), Per1k(R(outputTokens))), pOutput)
    IN  Breakdown(cacheWrite, cacheRead, freshInput, output)

\* computeStrategyA with the cached span read on every request, the first included
StrategyAReadsEveryRequest(model, students, reqsPerStudent, sysTokens, ctxTokens, subTokens, instTokens, outputTokens, tierMultiplier, cacheTTL) ==
    LET p == model.pricing
        pInput == RMul(p.input_1k, tierMultiplier)
        pOutput == RMul(p.output_1k, tierMultiplier)
        pWrite == RMul(getCacheWritePrice(model, cacheTTL), tierMultiplier)
        pRead == RMul(OrZero(p.cache_read_1k), tierMultiplier)
        totalRequests == students * reqsPerStudent
        cachedTokens == R(sysTokens + ctxTokens)
        freshTokens == RAdd(subTokens, instTokens)
        cacheWrite == RMul(Per1k(cachedTokens), pWrite)
        cacheRead == RMul(RMul(R(totalRequests), Per1k(cachedTokens)), pRead)
        freshInput == RMul(RMul(R(totalRequests), Per1k(freshTokens)), pInput)
        output == RMul(RMul(R(totalRequests), Per1k(R(outputTokens))), pOutput)
    IN  Breakdown(cacheWrite, cacheRead, freshInput, output)

computeStrategyA(model, students, reqsPerStudent, sysTokens, ctxTokens, subTokens, instTokens, outputTokens, tierMultiplier, cacheTTL) == Call("computeStrategyA", <<model, students, reqsPerStudent, sysTokens, ctxTokens, subTokens, instTokens, outputTokens, tierMultiplier, cacheTTL>>)
computeStrategyA_body(model, students, reqsPerStudent, sysTokens, ctxTokens, subTokens, instTokens, outputTokens, tierMultiplier, cacheTTL) ==
    LET p == model.pricing
        pInput == RMul(p.input_1k, tierMultiplier)
        pOutput == RMul(p.output_1k, tierMultiplier)
        pWrite == RMul(getCacheWritePrice(model, cacheTTL), tierMultiplier)
        pRead == RMul(OrZero(p.cache_read_1k), tierMultiplier)
        totalRequests == students * reqsPerStudent
        cachedTokens == R(sysTokens + ctxTokens)
        freshTokens == RAdd(subTokens, instTokens)
        cacheWrite == RMul(Per1k(cachedTokens), pWrite)
        cacheRead == RMul(RMul(R(totalRequests - 1), Per1k(cachedTokens)), pRead)
        freshInput == RMul(RMul(R(totalRequests), Per1k(freshTokens)), pInput)
        output == RMul(RMul(R(totalRequests), Per1k(R(outputTokens))), pOutput)
    IN  Breakdown(cacheWrite, cacheRead, freshInput, output)

\* computeStrategyB taking the cacheable branch whatever the flag says
StrategyBAlwaysCacheable(model, students, reqsPerStudent, sysTokens, ctxTokens, subTokens, instTokens, outputTokens, tierMultiplier, submissionCacheable, cacheTTL) ==
    LET p == model.pricing
        pInput == RMul(p.input_1k, tierMultiplier)
        pOutput == RMul(p.output_1k, tierMultiplier)
        pWrite == RMul(getCacheWritePrice(model, cacheTTL), tierMultiplier)
        pRead == RMul(OrZero(p.cache_read_1k), tierMultiplier)
        totalRequests == students * reqsPerStudent
        fullCachedTokens == RAdd(R(sysTokens + ctxTokens), subTokens)
        cacheWrite == RMul(RMul(R(students), Per1k(fullCachedTokens)), pWrite)
        cacheRead == RMul(RMul(R(students * (reqsPerStudent - 1)), Per1k(fullCachedTokens)), pRead)
        freshInput == RMul(RMul(R(totalRequests), Per1k(instTokens)), pInput)
        output == RMul(RMul(R(totalRequests), Per1k(R(outputTokens))), pOutput)
    IN  Breakdown(cacheWrite, cacheRead, freshInput, output)

\* computeStrategyB writing a changing submission once per student only
StrategyBSubmissionWrittenPerStudent(model, students, reqsPerStudent, sysTokens, ctxTokens, subTokens, instTokens, outputTokens, tierMultiplier, submissionCacheable, cacheTTL) ==
    LET p == model.pricing
        pInput == RMul(p.input_1k, tierMultiplier)
        pOutput == RMul(p.output_1k, tierMultiplier)
        pWrite == RMul(getCacheWritePrice(model, cacheTTL), tierMultiplier)
        pRead == RMul(OrZero(p.cache_read_1k), tierMultiplier)
        totalRequests == students * reqsPerStudent
        sharedTokens == R(sysTokens + ctxTokens)
        fullCachedTokens == RAdd(sharedTokens, subTokens)
        cacheWrite ==
            IF submissionCacheable
            THEN RMul(RMul(R(students), Per1k(fullCachedTokens)), pWrite)
            ELSE RAdd(RMul(Per1k(sharedTokens), pWrite),
                      RMul(RMul(R(students), Per1k(subTokens)), pWrite))
        cacheRead ==
            IF submissionCacheable
            THEN RMul(RMul(R(students * (reqsPerStudent - 1)), Per1k(fullCachedTokens)), pRead)
            ELSE RMul(RMul(R(totalRequests - 1), Per1k(sharedTokens)), pRead)
        freshInput == RMul(RMul(R(totalRequests), Per1k(instTokens)), pInput)
        output == RMul(RMul(R(totalRequests), Per1k(R(outputTokens))), pOutput)
    IN  Breakdown(cacheWrite, cacheRead, freshInput, output)

computeStrategyB(model, students, reqsPerStudent, sysTokens, ctxTokens, subTokens, instTokens, outputTokens, tierMultiplier, submissionCacheable, cacheTTL) == Call("computeStrategyB", <<model, students, reqsPerStudent, sysTokens, ctxTokens, subTokens, instTokens, outputTokens, tierMultiplier, submissionCacheable, cacheTTL>>)
computeStrategyB_body(model, students, reqsPerStudent, sysTokens, ctxTokens, subTokens, instTokens, outputTokens, tierMultiplier, submissionCacheable, cacheTTL) ==
    LET p == model.pricing
        pInput == RMul(p.input_1k, tierMultiplier)
        pOutput == RMul(p.output_1k, tierMultiplier)
        pWrite == RMul(getCacheWritePrice(model, cacheTTL), tierMultiplier)
        pRead == RMul(OrZero(p.cache_read_1k), tierMultiplier)
        totalRequests == students * reqsPerStudent
        sharedTokens == R(sysTokens + ctxTokens)
        fullCachedTokens == RAdd(sharedTokens, subTokens)
        cacheWrite ==
            IF submissionCacheable
            THEN RMul(RMul(R(students), Per1k(fullCachedTokens)), pWrite)
            ELSE RAdd(RMul(Per1k(sharedTokens), pWrite),
                      RMul(RMul(R(totalRequests), Per1k(subTokens)), pWrite))
        cacheRead ==
            IF submissionCacheable
            THEN RMul(RMul(R(students * (reqsPerStudent - 1)), Per1k(fullCachedTokens)), pRead)
            ELSE RMul(RMul(R(totalRequests - 1), Per1k(sharedTokens)), pRead)
        freshInput == RMul(RMul(R(totalRequests), Per1k(instTokens)), pInput)
        output == RMul(RMul(R(totalRequests), Per1k(R(outputTokens))), pOutput)
    IN  Breakdown(cacheWrite, cacheRead, freshInput, output)

\* computeNoCaching with the output cost subtracted instead of added
NoCachingOutputSubtracted(model, students, reqsPerStudent, sysTokens, ctxTokens, subTokens, instTokens, outputTokens, tierMultiplier) ==
    LET p == model.pricing
        pInput == RMul(p.input_1k, tierMultiplier)
        pOutput == RMul(p.output_1k, tierMultiplier)
        totalRequests == students * reqsPerStudent
        allInputTokens == RAdd(RAdd(R(sysTokens + ctxTokens), subTokens), instTokens)
        freshInput == RMul(RMul(R(totalRequests), Per1k(allInputTokens)), pInput)
        output == RNeg(RMul(RMul(R(totalRequests), Per1k(R(outputTokens))), pOutput))
    IN  Breakdown(R(0), R(0), freshInput, output)

computeNoCaching(model, students, reqsPerStudent, sysTokens, ctxTokens, subTokens, instTokens, outputTokens, tierMultiplier) == Call("computeNoCaching", <<model, students, reqsPerStudent, sysTokens, ctxTokens, subTokens, instTokens, outputTokens, tierMultiplier>>)
computeNoCaching_body(model, students, reqsPerStudent, sysTokens, ctxTokens, subTokens, instTokens, outputTokens, tierMultiplier) ==
    LET p == model.pricing
        pInput == RMul(p.input_1k, tierMultiplier)
        pOutput == RMul(p.output_1k, tierMultiplier)
        totalRequests == students * reqsPerStudent
        allInputTokens == RAdd(RAdd(R(sysTokens + ctxTokens), subTokens), instTokens)
        freshInput == RMul(RMul(R(totalRequests), Per1k(allInputTokens)), pInput)
        output == RMul(RMul(R(totalRequests), Per1k(R(outputTokens))), pOutput)
    IN  Breakdown(R(0), R(0), freshInput, output)

\* computeBatch with an absent batch price counted as 0
BatchFreeWhenUnpriced(model, students, reqsPerStudent, sysTokens, ctxTokens, subTokens, instTokens, outputTokens, tierMultiplier) ==
    LET p == model.pricing
        pInput == RMul(OrZero(p.batch_input_1k), tierMultiplier)
        pOutput == RMul(OrZero(p.batch_output_1k), tierMultiplier)
        totalRequests == students * reqsPerStudent
        allInputTokens == RAdd(RAdd(R(sysTokens + ctxTokens), subTokens), instTokens)
        freshInput == RMul(RMul(R(totalRequests), Per1k(allInputTokens)), pInput)
        output == RMul(RMul(R(totalRequests), Per1k(R(outputTokens))), pOutput)
    IN  Breakdown(R(0), R(0), freshInput, output)

computeBatch(model, students, reqsPerStudent, sysTokens, ctxTokens, subTokens, instTokens, outputTokens, tierMultiplier) == Call("computeBatch", <<model, students, reqsPerStudent, sysTokens, ctxTokens, subTokens, instTokens, outputTokens, tierMultiplier>>)
computeBatch_body(model, students, reqsPerStudent, sysTokens, ctxTokens, subTokens, instTokens, outputTokens, tierMultiplier) ==
    LET p == model.pricing
        pInput == RMul(OrElse(p.batch_input_1k, p.input_1k), tierMultiplier)
        pOutput == RMul(OrElse(p.batch_output_1k, p.output_1k), tierMultiplier)
        totalRequests == students * reqsPerStudent
        allInputTokens == RAdd(RAdd(R(sysTokens + ctxTokens), subTokens), instTokens)
        freshInput == RMul(RMul(R(totalRequests), Per1k(allInputTokens)), pInput)
        output == RMul(RMul(R(totalRequests), Per1k(R(outputTokens))), pOutput)
    IN  Breakdown(R(0), R(0), freshInput, output)

computeGuardrailsCost(totalRequests, studentInputTokensPerRequest, outputTokensPerRequest) == Call("computeGuardrailsCost", <<totalRequests, studentInputTokensPerRequest, outputTokensPerRequest>>)
computeGuardrailsCost_body(totalRequests, studentInputTokensPerRequest, outputTokensPerRequest) ==
    LET evaluatedChars == RMul(RAdd(studentInputTokensPerRequest, R(outputTokensPerRequest)), R(CHARS_PER_TOKEN))
        textUnits == Per1k(evaluatedChars)
    IN  RMul(RMul(R(totalRequests), Per1k(textUnits)), GUARDRAILS_COST_PER_1K_UNITS)

-----------------------------------------------------------------------------
(* Graduated chat history model and progressive submission model *)

computeTokensPerExchange(outputTokens) == Call("computeTokensPerExchange", <<outputTokens>>)
computeTokensPerExchange_body(outputTokens) == Round(RMul(R(outputTokens), Dec(5, 4)))

\* computeAvgHistoryTokens with a ramp that starts at one exchange instead of at 0
AvgHistoryRampFromOneExchange(historyCap, reqsPerStudent, outputTokens) ==
    IF reqsPerStudent <= 0 \/ historyCap <= 0 THEN R(0)
    ELSE LET tpe == computeTokensPerExchange(outputTokens)
         IN  IF tpe <= 0 THEN R(historyCap)
             ELSE LET ceilCap == CeilDiv(historyCap, tpe)
                      rampCount == IF ceilCap < reqsPerStudent THEN ceilCap ELSE reqsPerStudent
                      rampSum == RDiv(R(tpe * rampCount * (rampCount + 1)), R(2))
                      cappedCount == IF reqsPerStudent - rampCount > 0 THEN reqsPerStudent - rampCount ELSE 0
                      cappedSum == historyCap * cappedCount
                  IN  RDiv(RAdd(rampSum, R(cappedSum)), R(reqsPerStudent))

computeAvgHistoryTokens(historyCap, reqsPerStudent, outputTokens) == Call("computeAvgHistoryTokens", <<historyCap, reqsPerStudent, outputTokens>>)
computeAvgHistoryTokens_body(historyCap, reqsPerStudent, outputTokens) ==
    IF reqsPerStudent <= 0 \/ historyCap <= 0 THEN R(0)
    ELSE LET tpe == computeTokensPerExchange(outputTokens)
         IN  IF tpe <= 0 THEN R(historyCap)
             ELSE LET ceilCap == CeilDiv(historyCap, tpe)
                      rampCount == IF ceilCap < reqsPerStudent THEN ceilCap ELSE reqsPerStudent
                      rampSum == RDiv(R(tpe * rampCount * (rampCount - 1)), R(2))
                      cappedCount == IF reqsPerStudent - rampCount > 0 THEN reqsPerStudent - rampCount ELSE 0
                      cappedSum == historyCap * cappedCount
                  IN  RDiv(RAdd(rampSum, R(cappedSum)), R(reqsPerStudent))

\* computeHistoryAtTurn counting the exchange of the turn itself
HistoryAtTurnCountingOwnExchange(turn, historyCap, outputTokens) ==
    IF turn <= 0 THEN 0
    ELSE LET tpe == computeTokensPerExchange(outputTokens)
         IN  IF turn * tpe < historyCap THEN turn * tpe ELSE historyCap

computeHistoryAtTurn(turn, historyCap, outputTokens) == Call("computeHistoryAtTurn", <<turn, historyCap, outputTokens>>)
computeHistoryAtTurn_body(turn, historyCap, outputTokens) ==
    IF turn <= 1 THEN 0
    ELSE LET tpe == computeTokensPerExchange(outputTokens)
         IN  IF (turn - 1) * tpe < historyCap THEN (turn - 1) * tpe ELSE historyCap

getEffectiveInstTokens(instTokens, reqsPerStudent, outputTokens, conversational) == Call("getEffectiveInstTokens", <<instTokens, reqsPerStudent, outputTokens, conversational>>)
getEffectiveInstTokens_body(instTokens, reqsPerStudent, outputTokens, conversational) ==
    IF ~conversational THEN R(instTokens)
    ELSE computeAvgHistoryTokens(instTokens, reqsPerStudent, outputTokens)

getEffectiveSubTokens(subTokens, reqsPerStudent, progressiveSubmission) == Call("getEffectiveSubTokens", <<subTokens, reqsPerStudent, progressiveSubmission>>)
getEffectiveSubTokens_body(subTokens, reqsPerStudent, progressiveSubmission) ==
    IF ~progressiveSubmission \/ reqsPerStudent <= 1 THEN R(subTokens)
    ELSE RDiv(R(subTokens), R(2))

computeSubTokensAtTurn(turn, reqsPerStudent, subTokens, progressiveSubmission) == Call("computeSubTokensAtTurn", <<turn, reqsPerStudent, subTokens, progressiveSubmission>>)
computeSubTokensAtTurn_body(turn, reqsPerStudent, subTokens, progressiveSubmission) ==
    IF ~progressiveSubmission \/ reqsPerStudent <= 1 THEN subTokens
    ELSE IF turn <= 1 THEN 0
    ELSE Round(RMul(RDiv(R(turn - 1), R(reqsPerStudent - 1)), R(subTokens)))

-----------------------------------------------------------------------------
(* Summarization simulation *)

EmptySim == Call("EmptySim", <<>>)
EmptySim_body ==
    [historyPerTurn |-> <<>>, summarizationTurns |-> <<>>, totalHistoryTokensSent |-> 0,
     avgHistoryPerTurn |-> R(0), numSummarizations |-> 0, turnsPerCycle |-> 0]

\* the loop state before turn 1
SimStart == [t |-> 1, history |-> 0, total |-> 0, historyPerTurn |-> <<>>, summarizationTurns |-> <<>>]

\* SimTurn with the reset to summarySize forgotten
SimTurnNoReset(s, reqsPerStudent, historyCap, tpe, summarySize) ==
    LET grown == s.history + tpe
        summarize == grown >= historyCap /\ s.t < reqsPerStudent
    IN  [t |-> s.t + 1,
         history |-> grown,
         total |-> s.total + s.history,
         historyPerTurn |-> Append(s.historyPerTurn, s.history),
         summarizationTurns |-> IF summarize THEN Append(s.summarizationTurns, s.t) ELSE s.summarizationTurns]

\* SimTurn with the guard t < reqsPerStudent forgotten
SimTurnSummarizeOnLastTurn(s, reqsPerStudent, historyCap, tpe, summarySize) ==
    LET grown == s.history + tpe
        summarize == grown >= historyCap
    IN  [t |-> s.t + 1,
         history |-> IF summarize THEN summarySize ELSE grown,
         total |-> s.total + s.history,
         historyPerTurn |-> Append(s.historyPerTurn, s.history),
         summarizationTurns |-> IF summarize THEN Append(s.summarizationTurns, s.t) ELSE s.summarizationTurns]

\* SimTurn with the history emptied by a summarization, the summary dropped
SimTurnResetToZero(s, reqsPerStudent, historyCap, tpe, summarySize) ==
    LET grown == s.history + tpe
        summarize == grown >= historyCap /\ s.t < reqsPerStudent
    IN  [t |-> s.t + 1,
         history |-> IF summarize THEN 0 ELSE grown,
         total |-> s.total + s.history,
         historyPerTurn |-> Append(s.historyPerTurn, s.history),
         summarizationTurns |-> IF summarize THEN Append(s.summarizationTurns, s.t) ELSE s.summarizationTurns]

\* one iteration of the for loop, at turn s.t
SimTurn(s, reqsPerStudent, historyCap, tpe, summarySize) == Call("SimTurn", <<s, reqsPerStudent, historyCap, tpe, summarySize>>)
SimTurn_body(s, reqsPerStudent, historyCap, tpe, summarySize) ==
    LET grown == s.history + tpe
        summarize == grown >= historyCap /\ s.t < reqsPerStudent
    IN  [t |-> s.t + 1,
         history |-> IF summarize THEN summarySize ELSE grown,
         total |-> s.total + s.history,
         historyPerTurn |-> Append(s.historyPerTurn, s.history),
         summarizationTurns |-> IF summarize THEN Append(s.summarizationTurns, s.t) ELSE s.summarizationTurns]

\* n consecutive turns of the loop, applied in order; the first half is
\* evaluated before the second so that the evaluation stays shallow
RECURSIVE SimTurns(_, _, _, _, _, _)
SimTurns(s, n, reqsPerStudent, historyCap, tpe, summarySize) ==
    IF n <= 0 THEN s
    ELSE IF n = 1 THEN SimTurn(s, reqsPerStudent, historyCap, tpe, summarySize)
    ELSE LET mid == SimTurns(s, n \div 2, reqsPerStudent, historyCap, tpe, summarySize)
         IN  IF mid.t > reqsPerStudent THEN mid
             ELSE SimTurns(mid, n - (n \div 2), reqsPerStudent, historyCap, tpe, summarySize)

\* for (let t = s.t; t <= reqsPerStudent; t++)
SimLoop(s, reqsPerStudent, historyCap, tpe, summarySize) == Call("SimLoop", <<s, reqsPerStudent, historyCap, tpe, summarySize>>)
SimLoop_body(s, reqsPerStudent, historyCap, tpe, summarySize) ==
    SimTurns(s, reqsPerStudent - s.t + 1, reqsPerStudent, historyCap, tpe, summarySize)

\* the early return of simulateSummarization without its test of tokensPerExchange
SimDegenerateIgnoringExchange(reqsPerStudent, historyCap, tpe) == reqsPerStudent <= 0 \/ historyCap <= 0

\* the early return of simulateSummarization
SimDegenerate(reqsPerStudent, historyCap, tpe) == tpe <= 0 \/ reqsPerStudent <= 0 \/ historyCap <= 0

\* SimResult with the cycle length taken from the whole cap, the summary left out
SimResultCycleOfWholeCap(s, reqsPerStudent, historyCap, tpe, summarySize) ==
    [historyPerTurn |-> s.historyPerTurn,
     summarizationTurns |-> s.summarizationTurns,
     totalHistoryTokensSent |-> s.total,
     avgHistoryPerTurn |-> IF reqsPerStudent > 0 THEN RDiv(R(s.total), R(reqsPerStudent)) ELSE R(0),
     numSummarizations |-> Len(s.summarizationTurns),
     turnsPerCycle |-> IF tpe > 0 THEN CeilDiv(historyCap, tpe) ELSE 0]

\* the record returned after the loop, s being the loop's final state
SimResult(s, reqsPerStudent, historyCap, tpe, summarySize) == Call("SimResult", <<s, reqsPerStudent, historyCap, tpe, summarySize>>)
SimResult_body(s, reqsPerStudent, historyCap, tpe, summarySize) ==
    [historyPerTurn |-> s.historyPerTurn,
     summarizationTurns |-> s.summarizationTurns,
     totalHistoryTokensSent |-> s.total,
     avgHistoryPerTurn |-> IF reqsPerStudent > 0 THEN RDiv(R(s.total), R(reqsPerStudent)) ELSE R(0),
     numSummarizations |-> Len(s.summarizationTurns),
     turnsPerCycle |-> IF tpe > 0 THEN CeilDiv(historyCap - summarySize, tpe) ELSE 0]

simulateSummarization(reqsPerStudent, historyCap, outputTokens, summarySize) == Call("simulateSummarization", <<reqsPerStudent, historyCap, outputTokens, summarySize>>)
simulateSummarization_body(reqsPerStudent, historyCap, outputTokens, summarySize) ==
    LET tpe == computeTokensPerExchange(outputTokens)
    IN  IF SimDegenerate(reqsPerStudent, historyCap, tpe) THEN EmptySim
        ELSE SimResult(SimLoop(SimStart, reqsPerStudent, historyCap, tpe, summarySize), reqsPerStudent, historyCap, tpe, summarySize)

-----------------------------------------------------------------------------
(* Summarization strategies *)

SumBreakdown(cacheWrite, cacheRead, freshInput, output, summarizationCalls) == Call("SumBreakdown", <<cacheWrite, cacheRead, freshInput, output, summarizationCalls>>)
SumBreakdown_body(cacheWrite, cacheRead, freshInput, output, summarizationCalls) ==
    [cacheWrite |-> cacheWrite, cacheRead |-> cacheRead, freshInput |-> freshInput, output |-> output,
     guardrails |-> R(0),
     summarizationCalls |-> summarizationCalls,
     total |-> RAdd(RAdd(RAdd(RAdd(cacheWrite, cacheRead), freshInput), output), summarizationCalls)]

\* students * sim.numSummarizations * (perSumInput + perSumOutput)
SummarizationCalls(students, numSummarizations, sysTokens, instTokens, summarySize, pInput, pOutput) == Call("SummarizationCalls", <<students, numSummarizations, sysTokens, instTokens, summarySize, pInput, pOutput>>)
SummarizationCalls_body(students, numSummarizations, sysTokens, instTokens, summarySize, pInput, pOutput) ==
    LET perSumInput == RMul(Per1k(R(sysTokens + instTokens)), pInput)
        perSumOutput == RMul(Per1k(R(summarySize)), pOutput)
    IN  RMul(R(students * numSummarizations), RAdd(perSumInput, perSumOutput))

computeSumNoCaching(model, students, reqsPerStudent, sysTokens, ctxTokens, subTokens, instTokens, outputTokens, summarySize, tierMultiplier) == Call("computeSumNoCaching", <<model, students, reqsPerStudent, sysTokens, ctxTokens, subTokens, instTokens, outputTokens, summarySize, tierMultiplier>>)
computeSumNoCaching_body(model, students, reqsPerStudent, sysTokens, ctxTokens, subTokens, instTokens, outputTokens, summarySize, tierMultiplier) ==
    LET p == model.pricing
        pInput == RMul(p.input_1k, tierMultiplier)
        pOutput == RMul(p.output_1k, tierMultiplier)
        s == simulateSummarization(reqsPerStudent, instTokens, outputTokens, summarySize)
        totalReqs == students * reqsPerStudent
        fixedPerReq == RAdd(R(sysTokens + ctxTokens), subTokens)
        freshInput == RAdd(RMul(RMul(R(totalReqs), Per1k(fixedPerReq)), pInput),
                           RMul(RMul(R(students), Per1k(R(s.totalHistoryTokensSent))), pInput))
        output == RMul(RMul(R(totalReqs), Per1k(R(outputTokens))), pOutput)
        summarizationCalls == SummarizationCalls(students, s.numSummarizations, sysTokens, instTokens, summarySize, pInput, pOutput)
    IN  SumBreakdown(R(0), R(0), freshInput, output, summarizationCalls)

\* computeSumCacheAssessment sending the whole cap as history on every turn
SumCacheAssessmentHistoryAtCap(model, students, reqsPerStudent, sysTokens, ctxTokens, subTokens, instTokens, outputTokens, summarySize, tierMultiplier, cacheTTL) ==
    LET p == model.pricing
        pInput == RMul(p.input_1k, tierMultiplier)
        pOutput == RMul(p.output_1k, tierMultiplier)
        pWrite == RMul(getCacheWritePrice(model, cacheTTL), tierMultiplier)
        pRead == RMul(OrZero(p.cache_read_1k), tierMultiplier)
        s == simulateSummarization(reqsPerStudent, instTokens, outputTokens, summarySize)
        cachedPrefix == R(sysTokens + ctxTokens)
        totalReqs == students * reqsPerStudent
        cacheWrite == RMul(Per1k(cachedPrefix), pWrite)
        cacheRead == RMul(RMul(R(totalReqs - 1), Per1k(cachedPrefix)), pRead)
        freshInput == RAdd(RMul(RMul(R(totalReqs), Per1k(R(instTokens))), pInput),
                           RMul(RMul(R(totalReqs), Per1k(subTokens)), pInput))
        output == RMul(RMul(R(totalReqs), Per1k(R(outputTokens))), pOutput)
        summarizationCalls == SummarizationCalls(students, s.numSummarizations, sysTokens, instTokens, summarySize, pInput, pOutput)
    IN  SumBreakdown(cacheWrite, cacheRead, freshInput, output, summarizationCalls)

computeSumCacheAssessment(model, students, reqsPerStudent, sysTokens, ctxTokens, subTokens, instTokens, outputTokens, summarySize, tierMultiplier, cacheTTL) == Call("computeSumCacheAssessment", <<model, students, reqsPerStudent, sysTokens, ctxTokens, subTokens, instTokens, outputTokens, summarySize, tierMultiplier, cacheTTL>>)
computeSumCacheAssessment_body(model, students, reqsPerStudent, sysTokens, ctxTokens, subTokens, instTokens, outputTokens, summarySize, tierMultiplier, cacheTTL) ==
    LET p == model.pricing
        pInput == RMul(p.input_1k, tierMultiplier)
        pOutput == RMul(p.output_1k, tierMultiplier)
        pWrite == RMul(getCacheWritePrice(model, cacheTTL), tierMultiplier)
        pRead == RMul(OrZero(p.cache_read_1k), tierMultiplier)
        s == simulateSummarization(reqsPerStudent, instTokens, outputTokens, summarySize)
        cachedPrefix == R(sysTokens + ctxTokens)
        totalReqs == students * reqsPerStudent
        cacheWrite == RMul(Per1k(cachedPrefix), pWrite)
        cacheRead == RMul(RMul(R(totalReqs - 1), Per1k(cachedPrefix)), pRead)
        freshInput == RAdd(RMul(RMul(R(students), Per1k(R(s.totalHistoryTokensSent))), pInput),
                           RMul(RMul(R(totalReqs), Per1k(subTokens)), pInput))
        output == RMul(RMul(R(totalReqs), Per1k(R(outputTokens))), pOutput)
        summarizationCalls == SummarizationCalls(students, s.numSummarizations, sysTokens, instTokens, summarySize, pInput, pOutput)
    IN  SumBreakdown(cacheWrite, cacheRead, freshInput, output, summarizationCalls)

\* the per-student accumulators before turn 1
PerStudentStart == Call("PerStudentStart", <<>>)
PerStudentStart_body ==
    [perStudentCacheWrite |-> R(0), perStudentCacheRead |-> R(0), perStudentFreshInput |-> R(0), hasSummary |-> FALSE]

\* PerStudentTurn with the prefix written on the summarization turn itself
PerStudentTurnWriteOnSummaryTurn(acc, t, s, assessmentPrefix, fullPrefix, subTokens, summarySize, pInput, pWrite, pRead) ==
    LET history == IF t <= Len(s.historyPerTurn) THEN s.historyPerTurn[t] ELSE 0
        sumTurns == {s.summarizationTurns[i] : i \in 1..Len(s.summarizationTurns)}
        hasSummary == acc.hasSummary \/ (t > 1 /\ (t - 1) \in sumTurns)
        prefix == IF hasSummary THEN fullPrefix ELSE assessmentPrefix
        isWrite == t = 1 \/ t \in sumTurns
        freshHistory == IF hasSummary THEN (IF history - summarySize > 0 THEN history - summarySize ELSE 0) ELSE history
    IN  [perStudentCacheWrite |-> IF isWrite THEN RAdd(acc.perStudentCacheWrite, RMul(Per1k(R(prefix)), pWrite)) ELSE acc.perStudentCacheWrite,
         perStudentCacheRead |-> IF isWrite THEN acc.perStudentCacheRead ELSE RAdd(acc.perStudentCacheRead, RMul(Per1k(R(prefix)), pRead)),
         perStudentFreshInput |-> RAdd(acc.perStudentFreshInput, RMul(Per1k(RAdd(subTokens, R(freshHistory))), pInput)),
         hasSummary |-> hasSummary]

\* one iteration of computeSumCacheSummary's loop, at turn t
PerStudentTurn(acc, t, s, assessmentPrefix, fullPrefix, subTokens, summarySize, pInput, pWrite, pRead) == Call("PerStudentTurn", <<acc, t, s, assessmentPrefix, fullPrefix, subTokens, summarySize, pInput, pWrite, pRead>>)
PerStudentTurn_body(acc, t, s, assessmentPrefix, fullPrefix, subTokens, summarySize, pInput, pWrite, pRead) ==
    LET history == IF t <= Len(s.historyPerTurn) THEN s.historyPerTurn[t] ELSE 0
        sumTurns == {s.summarizationTurns[i] : i \in 1..Len(s.summarizationTurns)}
        hasSummary == acc.hasSummary \/ (t > 1 /\ (t - 1) \in sumTurns)
        prefix == IF hasSummary THEN fullPrefix ELSE assessmentPrefix
        isWrite == t = 1 \/ (hasSummary /\ (t - 1) \in sumTurns)
        freshHistory == IF hasSummary THEN (IF history - summarySize > 0 THEN history - summarySize ELSE 0) ELSE history
    IN  [perStudentCacheWrite |-> IF isWrite THEN RAdd(acc.perStudentCacheWrite, RMul(Per1k(R(prefix)), pWrite)) ELSE acc.perStudentCacheWrite,
         perStudentCacheRead |-> IF isWrite THEN acc.perStudentCacheRead ELSE RAdd(acc.perStudentCacheRead, RMul(Per1k(R(prefix)), pRead)),
         perStudentFreshInput |-> RAdd(acc.perStudentFreshInput, RMul(Per1k(RAdd(subTokens, R(freshHistory))), pInput)),
         hasSummary |-> hasSummary]

\* turns t .. t+n-1 of the per-student loop, applied in order; the first half
\* is evaluated before the second so that the evaluation stays shallow
RECURSIVE PerStudentTurns(_, _, _, _, _, _, _, _, _, _, _)
PerStudentTurns(acc, t, n, s, assessmentPrefix, fullPrefix, subTokens, summarySize, pInput, pWrite, pRead) ==
    IF n <= 0 THEN acc
    ELSE IF n = 1 THEN PerStudentTurn(acc, t, s, assessmentPrefix, fullPrefix, subTokens, summarySize, pInput, pWrite, pRead)
    ELSE LET mid == PerStudentTurns(acc, t, n \div 2, s, assessmentPrefix, fullPrefix, subTokens, summarySize, pInput, pWrite, pRead)
         IN  IF mid.hasSummary \in BOOLEAN
             THEN PerStudentTurns(mid, t + (n \div 2), n - (n \div 2), s, assessmentPrefix, fullPrefix, subTokens, summarySize, pInput, pWrite, pRead)
             ELSE mid

\* for (let t = 1; t <= reqsPerStudent; t++)
PerStudentLoop(acc, t, reqsPerStudent, s, assessmentPrefix, fullPrefix, subTokens, summarySize, pInput, pWrite, pRead) == Call("PerStudentLoop", <<acc, t, reqsPerStudent, s, assessmentPrefix, fullPrefix, subTokens, summarySize, pInput, pWrite, pRead>>)
PerStudentLoop_body(acc, t, reqsPerStudent, s, assessmentPrefix, fullPrefix, subTokens, summarySize, pInput, pWrite, pRead) ==
    PerStudentTurns(acc, t, reqsPerStudent - t + 1, s, assessmentPrefix, fullPrefix, subTokens, summarySize, pInput, pWrite, pRead)

\* SumCacheSummaryReturn without the two corrections of the shared prefix
SumCacheSummaryReturnUncorrected(acc, s, model, students, reqsPerStudent, sysTokens, ctxTokens, instTokens, outputTokens, summarySize, tierMultiplier, cacheTTL) ==
    LET p == model.pricing
        pInput == RMul(p.input_1k, tierMultiplier)
        pOutput == RMul(p.output_1k, tierMultiplier)
        totalReqs == students * reqsPerStudent
        cacheWrite == RMul(R(students), acc.perStudentCacheWrite)
        cacheRead == RMul(R(students), acc.perStudentCacheRead)
        freshInput == RMul(R(students), acc.perStudentFreshInput)
        output == RMul(RMul(R(totalReqs), Per1k(R(outputTokens))), pOutput)
        summarizationCalls == SummarizationCalls(students, s.numSummarizations, sysTokens, instTokens, summarySize, pInput, pOutput)
    IN  SumBreakdown(cacheWrite, cacheRead, freshInput, output, summarizationCalls)

\* the corrections and the returned breakdown, acc being the accumulators after the loop
SumCacheSummaryReturn(acc, s, model, students, reqsPerStudent, sysTokens, ctxTokens, instTokens, outputTokens, summarySize, tierMultiplier, cacheTTL) == Call("SumCacheSummaryReturn", <<acc, s, model, students, reqsPerStudent, sysTokens, ctxTokens, instTokens, outputTokens, summarySize, tierMultiplier, cacheTTL>>)
SumCacheSummaryReturn_body(acc, s, model, students, reqsPerStudent, sysTokens, ctxTokens, instTokens, outputTokens, summarySize, tierMultiplier, cacheTTL) ==
    LET p == model.pricing
        pInput == RMul(p.input_1k, tierMultiplier)
        pOutput == RMul(p.output_1k, tierMultiplier)
        pWrite == RMul(getCacheWritePrice(model, cacheTTL), tierMultiplier)
        pRead == RMul(OrZero(p.cache_read_1k), tierMultiplier)
        assessmentPrefix == sysTokens + ctxTokens
        totalReqs == students * reqsPerStudent
        sharedPrefixWriteCorrection ==
            IF students > 1 THEN RMul(RMul(R(students - 1), Per1k(R(assessmentPrefix))), pWrite) ELSE R(0)
        sharedPrefixReadCorrection ==
            IF students > 1 THEN RMul(RMul(R(students - 1), Per1k(R(assessmentPrefix))), pRead) ELSE R(0)
        cacheWrite == RSub(RMul(R(students), acc.perStudentCacheWrite), sharedPrefixWriteCorrection)
        cacheRead == RAdd(RMul(R(students), acc.perStudentCacheRead), sharedPrefixReadCorrection)
        freshInput == RMul(R(students), acc.perStudentFreshInput)
        output == RMul(RMul(R(totalReqs), Per1k(R(outputTokens))), pOutput)
        summarizationCalls == SummarizationCalls(students, s.numSummarizations, sysTokens, instTokens, summarySize, pInput, pOutput)
    IN  SumBreakdown(cacheWrite, cacheRead, freshInput, output, summarizationCalls)

computeSumCacheSummary(model, students, reqsPerStudent, sysTokens, ctxTokens, subTokens, instTokens, outputTokens, summarySize, tierMultiplier, cacheTTL) == Call("computeSumCacheSummary", <<model, students, reqsPerStudent, sysTokens, ctxTokens, subTokens, instTokens, outputTokens, summarySize, tierMultiplier, cacheTTL>>)
computeSumCacheSummary_body(model, students, reqsPerStudent, sysTokens, ctxTokens, subTokens, instTokens, outputTokens, summarySize, tierMultiplier, cacheTTL) ==
    LET p == model.pricing
        pInput == RMul(p.input_1k, tierMultiplier)
        pWrite == RMul(getCacheWritePrice(model, cacheTTL), tierMultiplier)
        pRead == RMul(OrZero(p.cache_read_1k), tierMultiplier)
        s == simulateSummarization(reqsPerStudent, instTokens, outputTokens, summarySize)
        assessmentPrefix == sysTokens + ctxTokens
        fullPrefix == assessmentPrefix + summarySize
        acc == PerStudentLoop(PerStudentStart, 1, reqsPerStudent, s, assessmentPrefix, fullPrefix, subTokens, summarySize, pInput, pWrite, pRead)
    IN  SumCacheSummaryReturn(acc, s, model, students, reqsPerStudent, sysTokens, ctxTokens, instTokens, outputTokens, summarySize, tierMultiplier, cacheTTL)

\* BreakEvenK with 0 in place of Infinity
BreakEvenKZeroWhenUndefined(cachedPrefix, summarySize, pInput, pWrite, pRead, denominator) ==
    IF RLt(R(0), denominator)
    THEN RDiv(RMul(RAdd(cachedPrefix, R(summarySize)), RSub(pWrite, pRead)), denominator)
    ELSE R(0)

\* BreakEvenK with the summary left out of the rewritten prefix
BreakEvenKPrefixOnly(cachedPrefix, summarySize, pInput, pWrite, pRead, denominator) ==
    IF RLt(R(0), denominator)
    THEN RDiv(RMul(cachedPrefix, RSub(pWrite, pRead)), denominator)
    ELSE INF

\* BreakEvenK with the rewritten prefix charged the write price, not the write price over the read price
BreakEvenKWriteAtFullPrice(cachedPrefix, summarySize, pInput, pWrite, pRead, denominator) ==
    IF RLt(R(0), denominator)
    THEN RDiv(RMul(RAdd(cachedPrefix, R(summarySize)), pWrite), denominator)
    ELSE INF

\* denominator > 0 ? (cachedPrefix + summarySize) * (pWrite - pRead) / denominator : Infinity
BreakEvenK(cachedPrefix, summarySize, pInput, pWrite, pRead, denominator) == Call("BreakEvenK", <<cachedPrefix, summarySize, pInput, pWrite, pRead, denominator>>)
BreakEvenK_body(cachedPrefix, summarySize, pInput, pWrite, pRead, denominator) ==
    IF RLt(R(0), denominator)
    THEN RDiv(RMul(RAdd(cachedPrefix, R(summarySize)), RSub(pWrite, pRead)), denominator)
    ELSE INF

\* computeSummarizationCost charging the rewritten prefix once per student, not once per cycle
SummarizationCostSavingsPerStudent(model, students, reqsPerStudent, sysTokens, ctxTokens, subTokens, instTokens, outputTokens, summarySize, tierMultiplier, cacheTTL, windowCostTotal) ==
    LET p == model.pricing
        pInput == RMul(p.input_1k, tierMultiplier)
        pOutput == RMul(p.output_1k, tierMultiplier)
        pRead == RMul(OrZero(p.cache_read_1k), tierMultiplier)
        pWrite == RMul(getCacheWritePrice(model, cacheTTL), tierMultiplier)
        s == simulateSummarization(reqsPerStudent, instTokens, outputTokens, summarySize)
        cachedPrefix == R(sysTokens + ctxTokens)
        totalReqs == students * reqsPerStudent
        cacheWrite == RMul(Per1k(cachedPrefix), pWrite)
        cacheRead == RMul(RMul(R(totalReqs - 1), Per1k(cachedPrefix)), pRead)
        freshInput == RAdd(RMul(RMul(R(students), Per1k(R(s.totalHistoryTokensSent))), pInput),
                           RMul(RMul(R(totalReqs), Per1k(subTokens)), pInput))
        output == RMul(RMul(R(totalReqs), Per1k(R(outputTokens))), pOutput)
        mainCallCost == RAdd(RAdd(RAdd(cacheWrite, cacheRead), freshInput), output)
        summarizationCallCost == SummarizationCalls(students, s.numSummarizations, sysTokens, instTokens, summarySize, pInput, pOutput)
        totalCost == RAdd(mainCallCost, summarizationCallCost)
        vsWindowSavings == RSub(windowCostTotal, totalCost)
        vsWindowSavingsPct ==
            IF RLt(R(0), windowCostTotal) THEN RMul(RDiv(vsWindowSavings, windowCostTotal), R(100)) ELSE R(0)
        denominator == RMul(R(summarySize), RSub(pInput, pRead))
        breakEvenK == BreakEvenK(cachedPrefix, summarySize, pInput, pWrite, pRead, denominator)
        summaryCachingViable == RLe(breakEvenK, R(s.turnsPerCycle))
        K == s.turnsPerCycle
        perCycleFresh == RAdd(RMul(RMul(R(K), Per1k(cachedPrefix)), pRead), RMul(RMul(R(K), Per1k(R(summarySize))), pInput))
        perCycleCached == RAdd(RMul(Per1k(RAdd(cachedPrefix, R(summarySize))), pWrite),
                               RMul(RMul(R(K - 1), Per1k(RAdd(cachedPrefix, R(summarySize)))), pRead))
        summaryCachingSavings ==
            IF s.numSummarizations > 0 /\ s.turnsPerCycle > 0
            THEN RMul(R(students), RSub(RMul(R(s.numSummarizations), perCycleFresh), perCycleCached))
            ELSE R(0)
    IN  [mainCallCost |-> mainCallCost,
         summarizationCallCost |-> summarizationCallCost,
         totalCost |-> totalCost,
         numSummarizations |-> s.numSummarizations,
         avgHistoryPerTurn |-> s.avgHistoryPerTurn,
         vsWindowSavings |-> vsWindowSavings,
         vsWindowSavingsPct |-> vsWindowSavingsPct,
         turnsPerCycle |-> s.turnsPerCycle,
         breakEvenK |-> breakEvenK,
         summaryCachingViable |-> summaryCachingViable,
         summaryCachingSavings |-> summaryCachingSavings]

computeSummarizationCost(model, students, reqsPerStudent, sysTokens, ctxTokens, subTokens, instTokens, outputTokens, summarySize, tierMultiplier, cacheTTL, windowCostTotal) == Call("computeSummarizationCost", <<model, students, reqsPerStudent, sysTokens, ctxTokens, subTokens, instTokens, outputTokens, summarySize, tierMultiplier, cacheTTL, windowCostTotal>>)
computeSummarizationCost_body(model, students, reqsPerStudent, sysTokens, ctxTokens, subTokens, instTokens, outputTokens, summarySize, tierMultiplier, cacheTTL, windowCostTotal) ==
    LET p == model.pricing
        pInput == RMul(p.input_1k, tierMultiplier)
        pOutput == RMul(p.output_1k, tierMultiplier)
        pRead == RMul(OrZero(p.cache_read_1k), tierMultiplier)
        pWrite == RMul(getCacheWritePrice(model, cacheTTL), tierMultiplier)
        s == simulateSummarization(reqsPerStudent, instTokens, outputTokens, summarySize)
        cachedPrefix == R(sysTokens + ctxTokens)
        totalReqs == students * reqsPerStudent
        cacheWrite == RMul(Per1k(cachedPrefix), pWrite)
        cacheRead == RMul(RMul(R(totalReqs - 1), Per1k(cachedPrefix)), pRead)
        freshInput == RAdd(RMul(RMul(R(students), Per1k(R(s.totalHistoryTokensSent))), pInput),
                           RMul(RMul(R(totalReqs), Per1k(subTokens)), pInput))
        output == RMul(RMul(R(totalReqs), Per1k(R(outputTokens))), pOutput)
        mainCallCost == RAdd(RAdd(RAdd(cacheWrite, cacheRead), freshInput), output)
        summarizationCallCost == SummarizationCalls(students, s.numSummarizations, sysTokens, instTokens, summarySize, pInput, pOutput)
        totalCost == RAdd(mainCallCost, summarizationCallCost)
        vsWindowSavings == RSub(windowCostTotal, totalCost)
        vsWindowSavingsPct ==
            IF RLt(R(0), windowCostTotal) THEN RMul(RDiv(vsWindowSavings, windowCostTotal), R(100)) ELSE R(0)
        denominator == RMul(R(summarySize), RSub(pInput, pRead))
        breakEvenK == BreakEvenK(cachedPrefix, summarySize, pInput, pWrite, pRead, denominator)
        summaryCachingViable == RLe(breakEvenK, R(s.turnsPerCycle))
        K == s.turnsPerCycle
        perCycleFresh == RAdd(RMul(RMul(R(K), Per1k(cachedPrefix)), pRead), RMul(RMul(R(K), Per1k(R(summarySize))), pInput))
        perCycleCached == RAdd(RMul(Per1k(RAdd(cachedPrefix, R(summarySize))), pWrite),
                               RMul(RMul(R(K - 1), Per1k(RAdd(cachedPrefix, R(summarySize)))), pRead))
        summaryCachingSavings ==
            IF s.numSummarizations > 0 /\ s.turnsPerCycle > 0
            THEN RMul(R(students * s.numSummarizations), RSub(perCycleFresh, perCycleCached))
            ELSE R(0)
    IN  [mainCallCost |-> mainCallCost,
         summarizationCallCost |-> summarizationCallCost,
         totalCost |-> totalCost,
         numSummarizations |-> s.numSummarizations,
         avgHistoryPerTurn |-> s.avgHistoryPerTurn,
         vsWindowSavings |-> vsWindowSavings,
         vsWindowSavingsPct |-> vsWindowSavingsPct,
         turnsPerCycle |-> s.turnsPerCycle,
         breakEvenK |-> breakEvenK,
         summaryCachingViable |-> summaryCachingViable,
         summaryCachingSavings |-> summaryCachingSavings]

-----------------------------------------------------------------------------
(* Templates and price lists *)

TemplateKeys == {"graf-simple", "graf-literary", "clarity-chat", "clarity-chat-xl", "interactive-ai"}

Preset(students, reqsPerStudent, sysTokens, ctxTokens, subTokens, instTokens, outputTokens) ==
    [students |-> students, reqsPerStudent |-> reqsPerStudent, sysTokens |-> sysTokens, ctxTokens |-> ctxTokens,
     subTokens |-> subTokens, instTokens |-> instTokens, outputTokens |-> outputTokens]

TEMPLATES(key) == Call("TEMPLATES", <<key>>)
TEMPLATES_body(key) ==
    CASE key = "graf-simple" ->
           [submissionCacheable |-> TRUE, conversational |-> FALSE, progressiveSubmission |-> FALSE,
            defaultSummarizationEnabled |-> FALSE, defaultSummarySize |-> 500,
            defaultSensitivityParam |-> "ctxTokens", defaultCacheTTL |-> "5min",
            preset |-> Preset(30, 5, 1000, 500, 2000, 200, 500)]
      [] key = "graf-literary" ->
           [submissionCacheable |-> TRUE, conversational |-> FALSE, progressiveSubmission |-> FALSE,
            defaultSummarizationEnabled |-> FALSE, defaultSummarySize |-> 500,
            defaultSensitivityParam |-> "ctxTokens", defaultCacheTTL |-> "5min",
            preset |-> Preset(30, 5, 1000, 60000, 2000, 200, 500)]
      [] key = "clarity-chat" ->
           [submissionCacheable |-> FALSE, conversational |-> TRUE, progressiveSubmission |-> TRUE,
            defaultSummarizationEnabled |-> FALSE, defaultSummarySize |-> 500,
            defaultSensitivityParam |-> "ctxTokens", defaultCacheTTL |-> "1hour",
            preset |-> Preset(30, 12, 1000, 1000, 2000, 2000, 400)]
      [] key = "clarity-chat-xl" ->
           [submissionCacheable |-> FALSE, conversational |-> TRUE, progressiveSubmission |-> TRUE,
            defaultSummarizationEnabled |-> TRUE, defaultSummarySize |-> 1000,
            defaultSensitivityParam |-> "reqsPerStudent", defaultCacheTTL |-> "1hour",
            preset |-> Preset(30, 40, 1000, 1000, 1500, 3650, 300)]
      [] key = "interactive-ai" ->
           [submissionCacheable |-> TRUE, conversational |-> TRUE, progressiveSubmission |-> FALSE,
            defaultSummarizationEnabled |-> TRUE, defaultSummarySize |-> 500,
            defaultSensitivityParam |-> "ctxTokens", defaultCacheTTL |-> "1hour",
            preset |-> Preset(30, 20, 1000, 50000, 20, 1660, 133)]

\* Entries of the external price catalog (BedrockModel): one with every price,
\* one without a cache-write price and without 1-hour caching, one without
\* caching and without batch prices.
ModelSonnet == Call("ModelSonnet", <<>>)
ModelSonnet_body ==
    [id |-> "anthropic.claude-sonnet-4-6-20260115-v1:0", provider |-> "Anthropic",
     pricing |-> [input_1k |-> Dec(3, 1000), output_1k |-> Dec(3, 200), cache_write_1k |-> Dec(3, 800),
                  cache_write_1hour_1k |-> Dec(3, 500), cache_read_1k |-> Dec(3, 10000),
                  batch_input_1k |-> Dec(3, 2000), batch_output_1k |-> Dec(3, 400)],
     constraints |-> [supports_batch |-> TRUE, supports_caching |-> TRUE, supports_1hour_cache |-> TRUE,
                      supported_tiers |-> {"standard"}]]

ModelNova == Call("ModelNova", <<>>)
ModelNova_body ==
    [id |-> "amazon.nova-pro-v1:0", provider |-> "Amazon",
     pricing |-> [input_1k |-> Dec(1, 1250), output_1k |-> Dec(2, 625), cache_write_1k |-> NULL,
                  cache_write_1hour_1k |-> NULL, cache_read_1k |-> Dec(1, 5000),
                  batch_input_1k |-> Dec(1, 2500), batch_output_1k |-> Dec(1, 625)],
     constraints |-> [supports_batch |-> TRUE, supports_caching |-> TRUE, supports_1hour_cache |-> FALSE,
                      supported_tiers |-> {"standard", "priority", "flex"}]]

ModelLlama == Call("ModelLlama", <<>>)
ModelLlama_body ==
    [id |-> "meta.llama3-70b-instruct-v1:0", provider |-> "Meta",
     pricing |-> [input_1k |-> Dec(1, 1000), output_1k |-> Dec(1, 1000), cache_write_1k |-> NULL,
                  cache_write_1hour_1k |-> NULL, cache_read_1k |-> NULL,
                  batch_input_1k |-> NULL, batch_output_1k |-> NULL],
     constraints |-> [supports_batch |-> FALSE, supports_caching |-> FALSE, supports_1hour_cache |-> FALSE,
                      supported_tiers |-> {"standard", "flex"}]]

\* a price list whose cache reads cost as much as fresh input
ModelFlatRead == Call("ModelFlatRead", <<>>)
ModelFlatRead_body ==
    [id |-> "other.flat-read-v1:0", provider |-> "Other",
     pricing |-> [input_1k |-> Dec(1, 1000), output_1k |-> Dec(1, 500), cache_write_1k |-> Dec(1, 800),
                  cache_write_1hour_1k |-> NULL, cache_read_1k |-> Dec(1, 1000),
                  batch_input_1k |-> NULL, batch_output_1k |-> NULL],
     constraints |-> [supports_batch |-> FALSE, supports_caching |-> TRUE, supports_1hour_cache |-> FALSE,
                      supported_tiers |-> {"standard"}]]

Models == Call("Models", <<>>)
Models_body == {ModelSonnet, ModelNova, ModelLlama}

-----------------------------------------------------------------------------
(* The workload simulator's derived values and memos; a is the component state *)

SupportsCaching(a) == a.model.constraints.supports_caching

SupportsBatch(a) == a.model.constraints.supports_batch /\ a.model.pricing.batch_input_1k # NULL

EffectiveTier(a) == IF a.pricingTier \in a.model.constraints.supported_tiers THEN a.pricingTier ELSE "standard"

TierMultiplier(a) == Call("TierMultiplier", <<a>>)
TierMultiplier_body(a) ==
    IF EffectiveTier(a) = "priority" THEN Dec(7, 4)
    ELSE IF EffectiveTier(a) = "flex" THEN Dec(1, 2)
    ELSE R(1)

BatchIncluded(a) == Call("BatchIncluded", <<a>>)
BatchIncluded_body(a) ==
    SupportsBatch(a) /\ a.batchEnabled /\ (a.model.provider # "Amazon" \/ EffectiveTier(a) = "standard")

EffectiveCacheTTL(a) ==
    IF a.cacheTTL = "1hour" /\ a.model.constraints.supports_1hour_cache THEN "1hour" ELSE "5min"

DisplayMode(template) ==
    IF template \in {"clarity-chat", "clarity-chat-xl", "interactive-ai"} THEN "caching-insights"
    ELSE "strategy-comparison"

EffectiveInstTokens(a) == Call("EffectiveInstTokens", <<a>>)
EffectiveInstTokens_body(a) ==
    getEffectiveInstTokens(a.instTokens, a.reqsPerStudent, a.outputTokens, TEMPLATES(a.template).conversational)

EffectiveSubTokens(a) == Call("EffectiveSubTokens", <<a>>)
EffectiveSubTokens_body(a) ==
    getEffectiveSubTokens(a.subTokens, a.reqsPerStudent, TEMPLATES(a.template).progressiveSubmission)

GuardrailsCost(a) == Call("GuardrailsCost", <<a>>)
GuardrailsCost_body(a) ==
    IF a.guardrailsEnabled
    THEN computeGuardrailsCost(a.students * a.reqsPerStudent, EffectiveSubTokens(a), a.outputTokens)
    ELSE R(0)

\* b.guardrails = guardrailsCost; b.total += guardrailsCost
AddGuardrailsTotalUnchanged(b, guardrailsCost) == [b EXCEPT !.guardrails = guardrailsCost]

AddGuardrails(b, guardrailsCost) == Call("AddGuardrails", <<b, guardrailsCost>>)
AddGuardrails_body(b, guardrailsCost) ==
    [b EXCEPT !.guardrails = guardrailsCost, !.total = RAdd(b.total, guardrailsCost)]

Results(a) == Call("Results", <<a>>)
Results_body(a) ==
    LET g == GuardrailsCost(a)
        m == a.model
        tm == TierMultiplier(a)
        sub == EffectiveSubTokens(a)
        inst == EffectiveInstTokens(a)
        noCaching == AddGuardrails(computeNoCaching(m, a.students, a.reqsPerStudent, a.sysTokens, a.ctxTokens, sub, inst, a.outputTokens, tm), g)
        batch ==
            IF BatchIncluded(a)
            THEN AddGuardrails(computeBatch(m, a.students, a.reqsPerStudent, a.sysTokens, a.ctxTokens, sub, inst, a.outputTokens, tm), g)
            ELSE NONE
    IN  IF ~SupportsCaching(a)
        THEN [noCaching |-> noCaching, strategyA |-> NONE, strategyB |-> NONE, batch |-> batch]
        ELSE [noCaching |-> noCaching,
              strategyA |-> AddGuardrails(computeStrategyA(m, a.students, a.reqsPerStudent, a.sysTokens, a.ctxTokens, sub, inst, a.outputTokens, tm, EffectiveCacheTTL(a)), g),
              strategyB |-> AddGuardrails(computeStrategyB(m, a.students, a.reqsPerStudent, a.sysTokens, a.ctxTokens, sub, inst, a.outputTokens, tm, TEMPLATES(a.template).submissionCacheable, EffectiveCacheTTL(a)), g),
              batch |-> batch]

SummarizationResult(a, res) == Call("SummarizationResult", <<a, res>>)
SummarizationResult_body(a, res) ==
    IF ~TEMPLATES(a.template).conversational \/ ~a.summarizationEnabled \/ res.strategyA = NONE THEN NONE
    ELSE computeSummarizationCost(a.model, a.students, a.reqsPerStudent, a.sysTokens, a.ctxTokens, EffectiveSubTokens(a),
                                  a.instTokens, a.outputTokens, a.summarySize, TierMultiplier(a), EffectiveCacheTTL(a),
                                  res.strategyA.total)

SumStrategies(a) == Call("SumStrategies", <<a>>)
SumStrategies_body(a) ==
    IF ~TEMPLATES(a.template).conversational \/ ~a.summarizationEnabled THEN NONE
    ELSE LET g == GuardrailsCost(a)
             m == a.model
             tm == TierMultiplier(a)
             sub == EffectiveSubTokens(a)
         IN  [noCaching |-> AddGuardrails(computeSumNoCaching(m, a.students, a.reqsPerStudent, a.sysTokens, a.ctxTokens, sub, a.instTokens, a.outputTokens, a.summarySize, tm), g),
              cacheAssessment |->
                  IF SupportsCaching(a)
                  THEN AddGuardrails(computeSumCacheAssessment(m, a.students, a.reqsPerStudent, a.sysTokens, a.ctxTokens, sub, a.instTokens, a.outputTokens, a.summarySize, tm, EffectiveCacheTTL(a)), g)
                  ELSE NONE,
              cacheSummary |->
                  IF SupportsCaching(a)
                  THEN AddGuardrails(computeSumCacheSummary(m, a.students, a.reqsPerStudent, a.sysTokens, a.ctxTokens, sub, a.instTokens, a.outputTokens, a.summarySize, tm, EffectiveCacheTTL(a)), g)
                  ELSE NONE]

-----------------------------------------------------------------------------------------------------------------------------------------------------
(* Spec: the WorkloadSimulator component.  args is its state (the useState *)
(* values, the selected model being held as the catalog entry itself);     *)
(* results, summarizationResult and sumStrategies are the memos of the     *)
(* last render.  Every handler sets state and is followed by the render    *)
(* that recomputes the memos, so a step is the handler and its render.     *)

DEFAULT_TEMPLATE == "graf-simple"

PREFERRED_DEFAULT_MODEL == "anthropic.claude-sonnet-4-6-20260115-v1:0"

\* getPricingData().models as the component may find it: with and without the preferred model
PriceLists == Call("PriceLists", <<>>)
PriceLists_body == {<<ModelSonnet, ModelNova, ModelLlama>>, <<ModelLlama, ModelNova>>}

\* the initializer of selectedModelId: the preferred model, else the first that caches, else the first
InitialModel(models) == Call("InitialModel", <<models>>)
InitialModel_body(models) ==
    LET preferred == {i \in 1..Len(models) : models[i].id = PREFERRED_DEFAULT_MODEL}
        cachingModels == {i \in 1..Len(models) : models[i].constraints.supports_caching}
        First(S) == CHOOSE i \in S : \A j \in S : i <= j
    IN  IF preferred # {} THEN models[First(preferred)]
        ELSE IF cachingModels # {} THEN models[First(cachingModels)]
        ELSE models[1]

\* useState initial values: the preset of the default template, the initial model
MountState(models) == Call("MountState", <<models>>)
MountState_body(models) ==
    [models |-> models, template |-> DEFAULT_TEMPLATE, model |-> InitialModel(models),
     students |-> TEMPLATES(DEFAULT_TEMPLATE).preset.students,
     reqsPerStudent |-> TEMPLATES(DEFAULT_TEMPLATE).preset.reqsPerStudent,
     sysTokens |-> TEMPLATES(DEFAULT_TEMPLATE).preset.sysTokens,
     ctxTokens |-> TEMPLATES(DEFAULT_TEMPLATE).preset.ctxTokens,
     subTokens |-> TEMPLATES(DEFAULT_TEMPLATE).preset.subTokens,
     instTokens |-> TEMPLATES(DEFAULT_TEMPLATE).preset.instTokens,
     outputTokens |-> TEMPLATES(DEFAULT_TEMPLATE).preset.outputTokens,
     cacheTTL |-> TEMPLATES(DEFAULT_TEMPLATE).defaultCacheTTL,
     guardrailsEnabled |-> FALSE, pricingTier |-> "standard", batchEnabled |-> TRUE,
     sensitivityParam |-> "ctxTokens", inputMode |-> "simple",
     summarizationEnabled |-> FALSE, summarySize |-> 500]

resetToTemplate(a, tmpl) == Call("resetToTemplate", <<a, tmpl>>)
resetToTemplate_body(a, tmpl) ==
    LET t == TEMPLATES(tmpl)
        p == t.preset
    IN  [a EXCEPT !.students = p.students, !.reqsPerStudent = p.reqsPerStudent,
                  !.sysTokens = p.sysTokens, !.ctxTokens = p.ctxTokens, !.subTokens = p.subTokens,
                  !.instTokens = p.instTokens, !.outputTokens = p.outputTokens,
                  !.cacheTTL = t.defaultCacheTTL,
                  !.summarizationEnabled = t.defaultSummarizationEnabled,
                  !.summarySize = t.defaultSummarySize,
                  !.sensitivityParam = t.defaultSensitivityParam]

TOKENS_PER_WORD == Call("TOKENS_PER_WORD", <<>>)
TOKENS_PER_WORD_body == RDiv(R(4), R(3))

WORDS_PER_TOKEN == Call("WORDS_PER_TOKEN", <<>>)
WORDS_PER_TOKEN_body == RDiv(R(3), R(4))

\* Math.round(words * TOKENS_PER_WORD)
WordsToTokens(words) == Call("WordsToTokens", <<words>>)
WordsToTokens_body(words) == Round(RMul(R(words), TOKENS_PER_WORD))

AtLeast(min, v) == IF v < min THEN min ELSE v

\* SliderInput: the number entered is brought into the range of the control
\* before onChange receives it
commitValue(min, max, v) ==
    LET clamped == IF AtLeast(min, v) > max THEN max ELSE AtLeast(min, v)
    IN  clamped

\* the names the operator in finds on every object, inherited from Object.prototype
ObjectPrototypeNames ==
    {"constructor", "hasOwnProperty", "isPrototypeOf", "propertyIsEnumerable",
     "toLocaleString", "toString", "valueOf", "__proto__",
     "__defineGetter__", "__defineSetter__", "__lookupGetter__", "__lookupSetter__"}

SupportsTiers(a) == Cardinality(a.model.constraints.supported_tiers) > 1

\* nothing of the cost engine has been computed
IdleEngine ==
    /\ results = NONE /\ sumStrategies = NONE /\ summarizationResult = NONE
    /\ sim = NONE /\ avgHistory = NONE
    /\ rawData = <<>> /\ ri = 0 /\ crossovers = <<>>
    /\ subAtTurn = NONE
    /\ perStudent = NONE
    /\ historyAtTurn = NONE
    /\ interactions = 0

Idle ==
    /\ IdleEngine
    /\ pricingModule = NONE /\ app = NONE

\* the values of the swept parameter at which paramSensitivityData has a point
SENSITIVITY_SAMPLE_POINTS(param) == Call("SENSITIVITY_SAMPLE_POINTS", <<param>>)
SENSITIVITY_SAMPLE_POINTS_body(param) ==
    CASE param = "students" -> <<5, 10, 15, 20, 30, 50, 75, 100, 150, 200>>
      [] param = "reqsPerStudent" -> <<1, 5, 10, 20, 50, 75, 100, 150, 200>>
      [] param = "sysTokens" -> <<100, 500, 1000, 2000, 5000, 10000>>
      [] param = "ctxTokens" -> <<500, 1000, 2000, 5000, 10000, 25000, 50000, 100000>>
      [] param = "subTokens" -> <<100, 500, 1000, 2000, 5000, 10000, 20000>>
      [] param = "instTokens" -> <<50, 200, 500, 1000, 2000, 5000, 10000>>
      [] param = "outputTokens" -> <<100, 500, 1000, 2000, 5000, 10000>>

numPoints == 40

RECURSIVE SortAscending(_)
SortAscending(s) ==
    IF Len(s) = 0 THEN <<>>
    ELSE LET i == CHOOSE i \in 1..Len(s) : \A j \in 1..Len(s) : s[i] < s[j] \/ (s[i] = s[j] /\ i <= j)
         IN  <<s[i]>> \o SortAscending([k \in 1..(Len(s) - 1) |-> IF k < i THEN s[k] ELSE s[k + 1]])

GridPoints(param) == Call("GridPoints", <<param>>)
GridPoints_body(param) ==
    LET range == SENSITIVITY_SAMPLE_POINTS(param)
        min == range[1]
        max == range[Len(range)]
        step == RDiv(R(max - min), R(numPoints - 1))
    IN  [i \in 1..numPoints |-> Round(RAdd(R(min), RMul(step, R(i - 1))))]

\* the current value pushed at the end and left there
SamplePointsUnsorted(param, currentValue) ==
    LET grid == GridPoints(param)
    IN  IF \E i \in 1..Len(grid) : grid[i] = currentValue THEN grid
        ELSE Append(grid, currentValue)

SamplePoints(param, currentValue) == Call("SamplePoints", <<param, currentValue>>)
SamplePoints_body(param, currentValue) ==
    LET grid == GridPoints(param)
    IN  IF \E i \in 1..Len(grid) : grid[i] = currentValue THEN grid
        ELSE SortAscending(Append(grid, currentValue))

\* handlers followed after the mount
MaxInteractions == 2

\* the template parameter of the URL: absent, not a template, a template, a
\* name that every object inherits
TemplateParams == {"", "essay", "clarity-chat-xl", "toString"}

\* what the user enters in the controls
StudentsInputs == {1, 2}
TurnsInputs == {1, 10}
WordInputs == {100, 1500}
SysTokenInputs == {100}
CtxTokenInputs == {1000}
SubTokenInputs == {100}
InstTokenInputs == {50}
OutputTokenInputs == {100}
SummaryTokenInputs == {100}
SensitivityInputs == {"students", "instTokens"}

\* the three cost memos computed by a render with the component state a
Memos(a) == Call("Memos", <<a>>)
Memos_body(a) ==
    LET res == Results(a)
    IN  [results |-> res,
         summarizationResult |-> SummarizationResult(a, res),
         sumStrategies |-> SumStrategies(a)]

\* the memos m become those of the last render
Commit(m) ==
    /\ results' = m.results
    /\ summarizationResult' = m.summarizationResult
    /\ sumStrategies' = m.sumStrategies

\* the render with the component state a
Render(a) == Commit(Memos(a))

\* a handler sets the state a and the component renders again
SetState(a) ==
    /\ pc = "done"
    /\ interactions < MaxInteractions
    /\ interactions' = interactions + 1
    /\ args' = a
    /\ Render(a)
    /\ UNCHANGED <<pc, sim, avgHistory, rawData, ri, crossovers, subAtTurn, perStudent, historyAtTurn, pricingModule, app>>

\* the memos m are those of the first render
Mounted(m) ==
    /\ results = m.results
    /\ summarizationResult = m.summarizationResult
    /\ sumStrategies = m.sumStrategies

\* the component has mounted and rendered
Init ==
    /\ pc = "mounted"
    /\ \E models \in PriceLists :
           /\ args = MountState(models)
           /\ Mounted(Memos(MountState(models)))
    /\ sim = NONE /\ avgHistory = NONE
    /\ rawData = <<>> /\ ri = 0 /\ crossovers = <<>>
    /\ subAtTurn = NONE /\ perStudent = NONE /\ historyAtTurn = NONE
    /\ pricingModule = NONE /\ app = NONE
    /\ interactions = 0

\* the mount effect: a template named in the URL is selected and applied.
\* tmplParam in TEMPLATES also holds for an inherited name, which is no
\* template: resetToTemplate then reads the preset of undefined, the effect
\* throws, and the component is not rendered again.
TemplateParamEffect ==
    /\ pc = "mounted"
    /\ \E tmplParam \in TemplateParams :
           IF tmplParam # "" /\ tmplParam \in TemplateKeys \cup ObjectPrototypeNames
           THEN IF tmplParam \in TemplateKeys
                THEN LET a == resetToTemplate([args EXCEPT !.template = tmplParam], tmplParam)
                     IN  pc' = "done" /\ args' = a /\ Render(a)
                ELSE pc' = "thrown" /\ UNCHANGED <<args, results, summarizationResult, sumStrategies>>
           ELSE pc' = "done" /\ UNCHANGED <<args, results, summarizationResult, sumStrategies>>
    /\ UNCHANGED <<sim, avgHistory, rawData, ri, crossovers, subAtTurn, perStudent, historyAtTurn, pricingModule, app, interactions>>

\* a template is chosen (value is its key) or the active one is clicked again (value is "")
HandleTemplateChange ==
    \E value \in TemplateKeys \cup {""} :
        IF value # ""
        THEN SetState(resetToTemplate([args EXCEPT !.template = value], value))
        ELSE SetState(resetToTemplate(args, args.template))

HandleInputModeChange ==
    \E v \in {"", "simple", "technical"} :
        /\ v # ""
        /\ SetState(IF v = "simple"
                    THEN [args EXCEPT !.inputMode = v, !.sysTokens = TEMPLATES(args.template).preset.sysTokens]
                    ELSE [args EXCEPT !.inputMode = v])

handleAssignmentWordsChange(a, words) == Call("handleAssignmentWordsChange", <<a, words>>)
handleAssignmentWordsChange_body(a, words) ==
    LET totalTokens == WordsToTokens(words)
        defaultSys == TEMPLATES(a.template).preset.sysTokens
    IN  [a EXCEPT !.sysTokens = defaultSys, !.ctxTokens = AtLeast(0, totalTokens - defaultSys)]

HandleAssignmentWordsChange ==
    /\ args.inputMode = "simple"
    /\ \E words \in WordInputs : SetState(handleAssignmentWordsChange(args, commitValue(100, 120000, words)))

\* the student text split between submission and instructions in the preset's ratio
handleStudentTextWordsChange(a, words) == Call("handleStudentTextWordsChange", <<a, words>>)
handleStudentTextWordsChange_body(a, words) ==
    LET totalTokens == WordsToTokens(words)
        preset == TEMPLATES(a.template).preset
        subRatio == RDiv(R(preset.subTokens), R(preset.subTokens + preset.instTokens))
        newSub == Round(RMul(R(totalTokens), subRatio))
    IN  [a EXCEPT !.subTokens = AtLeast(100, newSub), !.instTokens = AtLeast(50, totalTokens - newSub)]

HandleStudentTextWordsChange ==
    /\ args.inputMode = "simple"
    /\ ~TEMPLATES(args.template).conversational
    /\ \E words \in WordInputs : SetState(handleStudentTextWordsChange(args, commitValue(50, 15000, words)))

HandleStudentTextWordsOnlyChange ==
    /\ args.inputMode = "simple"
    /\ TEMPLATES(args.template).conversational
    /\ \E words \in WordInputs :
           SetState([args EXCEPT !.subTokens = AtLeast(5, WordsToTokens(commitValue(50, 15000, words)))])

HandleChatHistoryWordsChange ==
    /\ args.inputMode = "simple"
    /\ TEMPLATES(args.template).conversational
    /\ \E words \in WordInputs :
           SetState([args EXCEPT !.instTokens = AtLeast(50, WordsToTokens(commitValue(50, 7500, words)))])

HandleAiResponseWordsChange ==
    /\ args.inputMode = "simple"
    /\ \E words \in WordInputs :
           SetState([args EXCEPT !.outputTokens = AtLeast(100, WordsToTokens(commitValue(50, 7500, words)))])

\* the Summary Size slider in words, whose range ends at three quarters of
\* the history cap
HandleSummaryWordsChange ==
    /\ args.inputMode = "simple"
    /\ TEMPLATES(args.template).conversational /\ args.summarizationEnabled
    /\ \E words \in WordInputs :
           LET max == AtLeast(150, Round(RMul(RMul(R(args.instTokens), Dec(75, 100)), WORDS_PER_TOKEN)))
           IN  SetState([args EXCEPT !.summarySize = AtLeast(100, WordsToTokens(commitValue(75, max, words)))])

SetSelectedModelId == \E i \in 1..Len(args.models) : SetState([args EXCEPT !.model = args.models[i]])

SetPricingTier ==
    /\ SupportsTiers(args)
    /\ \E v \in args.model.constraints.supported_tiers : SetState([args EXCEPT !.pricingTier = v])

SetBatchEnabled ==
    /\ SupportsBatch(args) /\ DisplayMode(args.template) = "strategy-comparison"
    /\ args.model.provider # "Amazon" \/ EffectiveTier(args) = "standard"
    /\ \E checked \in BOOLEAN : SetState([args EXCEPT !.batchEnabled = checked])

SetGuardrailsEnabled == \E checked \in BOOLEAN : SetState([args EXCEPT !.guardrailsEnabled = checked])

SetCacheTTL ==
    /\ SupportsCaching(args)
    /\ \E v \in {"5min", "1hour"} :
           /\ v = "1hour" => args.model.constraints.supports_1hour_cache
           /\ SetState([args EXCEPT !.cacheTTL = v])

\* the Select of paramChart, which is rendered when the model caches and the sweep has points
SetSensitivityParam ==
    /\ SupportsCaching(args)
    /\ Len(SamplePoints(args.sensitivityParam, args[args.sensitivityParam])) > 0
    /\ \E v \in SensitivityInputs : SetState([args EXCEPT !.sensitivityParam = v])

SetStudents == \E v \in StudentsInputs : SetState([args EXCEPT !.students = commitValue(1, 200, v)])

SetReqsPerStudent == \E v \in TurnsInputs : SetState([args EXCEPT !.reqsPerStudent = commitValue(1, 50, v)])

\* the sliders of the technical mode
SetSysTokens ==
    /\ args.inputMode = "technical"
    /\ \E v \in SysTokenInputs : SetState([args EXCEPT !.sysTokens = commitValue(100, 10000, v)])

SetCtxTokens ==
    /\ args.inputMode = "technical"
    /\ \E v \in CtxTokenInputs : SetState([args EXCEPT !.ctxTokens = commitValue(1000, 200000, v)])

SetSubTokens ==
    /\ args.inputMode = "technical"
    /\ \E v \in SubTokenInputs : SetState([args EXCEPT !.subTokens = commitValue(100, 20000, v)])

SetInstTokens ==
    /\ args.inputMode = "technical"
    /\ \E v \in InstTokenInputs : SetState([args EXCEPT !.instTokens = commitValue(50, 10000, v)])

SetOutputTokens ==
    /\ args.inputMode = "technical"
    /\ \E v \in OutputTokenInputs : SetState([args EXCEPT !.outputTokens = commitValue(100, 10000, v)])

SetSummarizationEnabled ==
    /\ TEMPLATES(args.template).conversational
    /\ \E checked \in BOOLEAN : SetState([args EXCEPT !.summarizationEnabled = checked])

SetSummarySize ==
    /\ args.inputMode = "technical"
    /\ TEMPLATES(args.template).conversational /\ args.summarizationEnabled
    /\ \E v \in SummaryTokenInputs :
           LET max == AtLeast(200, Round(RMul(R(args.instTokens), Dec(75, 100))))
           IN  SetState([args EXCEPT !.summarySize = commitValue(100, max, v)])

Next ==
    \/ TemplateParamEffect \/ HandleTemplateChange \/ HandleInputModeChange
    \/ HandleAssignmentWordsChange \/ HandleStudentTextWordsChange \/ HandleStudentTextWordsOnlyChange
    \/ HandleChatHistoryWordsChange \/ HandleAiResponseWordsChange \/ HandleSummaryWordsChange
    \/ SetSelectedModelId \/ SetPricingTier \/ SetBatchEnabled \/ SetGuardrailsEnabled \/ SetCacheTTL
    \/ SetSensitivityParam \/ SetStudents \/ SetReqsPerStudent
    \/ SetSysTokens \/ SetCtxTokens \/ SetSubTokens \/ SetInstTokens \/ SetOutputTokens
    \/ SetSummarizationEnabled \/ SetSummarySize

Spec == Init /\ [][Next]_vars

\* the memos of one render, for a component state given as input
RenderOnce ==
    /\ pc = "input"
    /\ Render(args)
    /\ pc' = "done"
    /\ UNCHANGED <<args, sim, avgHistory, rawData, ri, crossovers, subAtTurn, perStudent, historyAtTurn, pricingModule, app, interactions>>

-----------------------------------------------------------------------------
(* C1 *)

ComponentSum(b) == Call("ComponentSum", <<b>>)
ComponentSum_body(b) == RAdd(RAdd(RAdd(RAdd(b.cacheWrite, b.cacheRead), b.freshInput), b.output), b.guardrails)

FlatBreakdowns ==
    IF results = NONE THEN {}
    ELSE {results.noCaching, results.strategyA, results.strategyB, results.batch} \ {NONE}

SumBreakdowns ==
    IF sumStrategies = NONE THEN {}
    ELSE {sumStrategies.noCaching, sumStrategies.cacheAssessment, sumStrategies.cacheSummary} \ {NONE}

\* C1 as stated: every strategy's breakdown, the three summarization strategies
\* included, has total = cacheWrite + cacheRead + freshInput + output + guardrails
\* (to within Tolerance) after the caller has added the guardrails cost.
C1_TotalIsFiveComponentSum ==
    \A b \in FlatBreakdowns \cup SumBreakdowns : Close(b.total, ComponentSum(b))

\* C1 amended: the four flat strategies have total = cacheWrite + cacheRead +
\* freshInput + output + guardrails; the three summarization strategies have
\* total = that sum plus their summarizationCalls component.  The flat totals
\* are that very sum of doubles; the summarization totals, added up in another
\* order, agree with it to within Tolerance.
C1_TotalIsComponentSum ==
    /\ \A b \in FlatBreakdowns : b.total = ComponentSum(b)
    /\ \A b \in SumBreakdowns : Close(b.total, RAdd(ComponentSum(b), b.summarizationCalls))

\* every flat and every summarization breakdown computed, guardrails charged,
\* and a summarization call paid for
C1_Witness ==
    /\ pc = "done"
    /\ Cardinality(FlatBreakdowns) = 4
    /\ Cardinality(SumBreakdowns) = 3
    /\ args.guardrailsEnabled
    /\ \A b \in FlatBreakdowns \cup SumBreakdowns : RLt(R(0), b.guardrails)
    /\ \A b \in SumBreakdowns : RLt(R(0), b.summarizationCalls)

-----------------------------------------------------------------------------
(* SpecSim: one call of simulateSummarization, turn by turn, followed by a *)
(* call of computeAvgHistoryTokens on the same inputs.                     *)

MaxSimTurns == 5
MaxCap == 5
MaxOutput == 2
MaxSummary == 2

\* the documented session: 12 turns, cap 2000, 400 output tokens (500 per exchange), summary 500
DocExample == [reqsPerStudent |-> 12, historyCap |-> 2000, outputTokens |-> 400, summarySize |-> 500]

\* a session of 11 turns, whose submission grows by a tenth per turn
ElevenTurns == [reqsPerStudent |-> 11, historyCap |-> 2000, outputTokens |-> 400, summarySize |-> 500]

SimInputs ==
    {[reqsPerStudent |-> n, historyCap |-> c, outputTokens |-> o, summarySize |-> z] :
        n \in 0..MaxSimTurns, c \in 0..MaxCap, o \in 0..MaxOutput, z \in 0..MaxSummary}
    \cup {DocExample, ElevenTurns}

Tpe == computeTokensPerExchange(args.outputTokens)

InitSim ==
    /\ pc = "call"
    /\ args \in SimInputs
    /\ Idle

SimReturnEmpty ==
    /\ pc = "call"
    /\ SimDegenerate(args.reqsPerStudent, args.historyCap, Tpe)
    /\ sim' = EmptySim
    /\ pc' = "returned"
    /\ UNCHANGED <<args, results, sumStrategies, summarizationResult, avgHistory, rawData, ri, crossovers, subAtTurn, perStudent, historyAtTurn, pricingModule, app, interactions>>

SimEnterLoop ==
    /\ pc = "call"
    /\ ~SimDegenerate(args.reqsPerStudent, args.historyCap, Tpe)
    /\ sim' = SimStart
    /\ pc' = "loop"
    /\ UNCHANGED <<args, results, sumStrategies, summarizationResult, avgHistory, rawData, ri, crossovers, subAtTurn, perStudent, historyAtTurn, pricingModule, app, interactions>>

SimLoopTurn ==
    /\ pc = "loop"
    /\ sim.t <= args.reqsPerStudent
    /\ sim' = SimTurn(sim, args.reqsPerStudent, args.historyCap, Tpe, args.summarySize)
    /\ UNCHANGED <<pc, args, results, sumStrategies, summarizationResult, avgHistory, rawData, ri, crossovers, subAtTurn, perStudent, historyAtTurn, pricingModule, app, interactions>>

SimReturn ==
    /\ pc = "loop"
    /\ sim.t > args.reqsPerStudent
    /\ sim' = SimResult(sim, args.reqsPerStudent, args.historyCap, Tpe, args.summarySize)
    /\ pc' = "returned"
    /\ UNCHANGED <<args, results, sumStrategies, summarizationResult, avgHistory, rawData, ri, crossovers, subAtTurn, perStudent, historyAtTurn, pricingModule, app, interactions>>

AvgHistoryCall ==
    /\ pc = "returned"
    /\ avgHistory = NONE
    /\ avgHistory' = computeAvgHistoryTokens(args.historyCap, args.reqsPerStudent, args.outputTokens)
    /\ UNCHANGED <<pc, args, results, sumStrategies, summarizationResult, sim, rawData, ri, crossovers, subAtTurn, perStudent, historyAtTurn, pricingModule, app, interactions>>

\* the submission sizes asked of computeSubTokensAtTurn
SubTokensAsked == {45, 2000}

\* computeSubTokensAtTurn called for the first, the second, the eighth or the last turn
SubTokensAtTurnCall ==
    /\ pc = "returned"
    /\ subAtTurn = NONE
    /\ \E turn \in {1, 2, args.reqsPerStudent} \cup ({8} \cap 1..args.reqsPerStudent), subTokens \in SubTokensAsked, progressiveSubmission \in BOOLEAN :
           subAtTurn' = [turn |-> turn, subTokens |-> subTokens, progressiveSubmission |-> progressiveSubmission,
                         value |-> computeSubTokensAtTurn(turn, args.reqsPerStudent, subTokens, progressiveSubmission)]
    /\ UNCHANGED <<pc, args, results, sumStrategies, summarizationResult, sim, avgHistory, rawData, ri, crossovers, perStudent, historyAtTurn, pricingModule, app, interactions>>

\* perTurnData: empty off the conversational templates and below two turns,
\* else computeHistoryAtTurn called for every turn of the conversation
HistoryAtTurnCalls ==
    /\ pc = "returned"
    /\ historyAtTurn = NONE
    /\ \E isConversational \in BOOLEAN :
           historyAtTurn' =
               [isConversational |-> isConversational,
                history |-> IF ~isConversational \/ args.reqsPerStudent < 2 THEN <<>>
                            ELSE [turn \in 1..args.reqsPerStudent |->
                                      computeHistoryAtTurn(turn, args.historyCap, args.outputTokens)]]
    /\ UNCHANGED <<pc, args, results, sumStrategies, summarizationResult, sim, avgHistory, rawData, ri, crossovers, subAtTurn, perStudent, pricingModule, app, interactions>>

NextSim == SimReturnEmpty \/ SimEnterLoop \/ SimLoopTurn \/ SimReturn \/ AvgHistoryCall \/ SubTokensAtTurnCall \/ HistoryAtTurnCalls

SpecSim == InitSim /\ [][NextSim]_vars

-----------------------------------------------------------------------------
(* C6, C7, C8 *)

SimReturned == pc = "returned" /\ ~SimDegenerate(args.reqsPerStudent, args.historyCap, Tpe)

SimValid == SimReturned /\ 0 <= args.summarySize /\ args.summarySize < args.historyCap

\* C6: on valid inputs (turns >= 1, historyCap > 0, tokensPerExchange > 0,
\* 0 <= summarySize < historyCap) the returned trace starts at 0, every recorded
\* history is below historyCap + tokensPerExchange, and numSummarizations is the
\* number of summarization turns.
C6_TraceBounded ==
    SimValid =>
        /\ sim.historyPerTurn[1] = 0
        /\ \A i \in 1..Len(sim.historyPerTurn) : sim.historyPerTurn[i] < args.historyCap + Tpe
        /\ sim.numSummarizations = Len(sim.summarizationTurns)

\* a valid run that summarized twice and recorded a history one exchange below the cap
C6_Witness ==
    /\ SimValid
    /\ sim.numSummarizations >= 2
    /\ \E i \in 1..Len(sim.historyPerTurn) : sim.historyPerTurn[i] + Tpe >= args.historyCap

\* C7: for turns >= 1, historyCap > 0 and tokensPerExchange > 0 the returned trace
\* obeys the per-turn rule: turn 1 records 0; at every turn t < turns, if the
\* recorded history plus tokensPerExchange reaches historyCap then t is a
\* summarization turn and turn t+1 records summarySize, otherwise t is none and
\* turn t+1 records the grown history.  The trace has turns entries, the total is
\* the sum of the trace, the summarization turns increase strictly and lie in
\* 1..turns-1, and the documented session sends 10,500 tokens with 3 summarizations.
C7_PerTurnRule ==
    SimReturned =>
        LET h == sim.historyPerTurn
            st == sim.summarizationTurns
            turns == args.reqsPerStudent
            sumTurns == {st[i] : i \in 1..Len(st)}
        IN  /\ Len(h) = turns
            /\ h[1] = 0
            /\ \A t \in 1..(turns - 1) :
                   IF h[t] + Tpe >= args.historyCap
                   THEN t \in sumTurns /\ h[t + 1] = args.summarySize
                   ELSE t \notin sumTurns /\ h[t + 1] = h[t] + Tpe
            /\ sim.totalHistoryTokensSent = SumSeq(h)
            /\ \A i \in 1..(Len(st) - 1) : st[i] < st[i + 1]
            /\ sumTurns \subseteq 1..(turns - 1)
            /\ args = DocExample => sim.totalHistoryTokensSent = 10500 /\ sim.numSummarizations = 3

\* the documented session has returned, with its summarizations at turns 4, 7 and 10
C7_Witness ==
    /\ SimReturned
    /\ args = DocExample
    /\ sim.summarizationTurns = <<4, 7, 10>>

RampNeverCompletes == Tpe > 0 /\ args.reqsPerStudent >= 1 /\ (args.reqsPerStudent - 1) * Tpe < args.historyCap

PureRampAverage == Call("PureRampAverage", <<>>)
PureRampAverage_body == RDiv(R(Tpe * (args.reqsPerStudent - 1)), R(2))

\* C8 as stated: with turns = 1 computeAvgHistoryTokens returns 0 for every cap and
\* every outputTokens, and when the ramp never completes within turns turns it
\* returns tokensPerExchange * (turns - 1) / 2.
C8_FirstTurnAlwaysZero ==
    avgHistory # NONE =>
        /\ args.reqsPerStudent = 1 => avgHistory = R(0)
        /\ RampNeverCompletes => avgHistory = PureRampAverage

\* C8 amended: with turns = 1 computeAvgHistoryTokens returns 0 whenever
\* tokensPerExchange > 0 or cap <= 0, and returns cap when tokensPerExchange <= 0
\* and cap > 0; when the ramp never completes within turns turns it returns
\* tokensPerExchange * (turns - 1) / 2.
C8_FirstTurnZeroUnlessNoExchange ==
    avgHistory # NONE =>
        /\ (args.reqsPerStudent = 1 /\ (Tpe > 0 \/ args.historyCap <= 0)) => avgHistory = R(0)
        /\ (args.reqsPerStudent = 1 /\ Tpe <= 0 /\ args.historyCap > 0) => avgHistory = R(args.historyCap)
        /\ RampNeverCompletes => avgHistory = PureRampAverage

\* a pure ramp over at least three turns has been averaged
C8_Witness ==
    /\ avgHistory # NONE
    /\ RampNeverCompletes
    /\ args.reqsPerStudent >= 3
    /\ avgHistory = PureRampAverage
    /\ RLt(R(0), avgHistory)

-----------------------------------------------------------------------------
(* SpecBreakEven: the render of Spec on conversational workloads whose     *)
(* history cap puts a chosen number of turns between two summarizations.   *)

\* turns between two summarizations: around each minimum of the break-even table
CycleLengths == {1, 3, 4, 5, 6, 7, 8, 9, 12, 14, 15, 26, 27, 31, 129, 130, 131}

BreakEvenPrefixes == {1000, 2000, 3000, 5000, 8500, 10000, 50000}

\* a conversation whose exchange is 100 tokens and whose cap is z + 100 * k,
\* so that turnsPerCycle is k
Conversation(m, ttl, st, rq, prefix, z, k) == Call("Conversation", <<m, ttl, st, rq, prefix, z, k>>)
Conversation_body(m, ttl, st, rq, prefix, z, k) ==
    [template |-> "clarity-chat", model |-> m,
     students |-> st, reqsPerStudent |-> rq,
     sysTokens |-> 500, ctxTokens |-> prefix - 500,
     subTokens |-> 2000, instTokens |-> z + 100 * k,
     outputTokens |-> 80,
     pricingTier |-> "standard", cacheTTL |-> ttl,
     guardrailsEnabled |-> FALSE, batchEnabled |-> TRUE,
     summarizationEnabled |-> TRUE, summarySize |-> z]

\* conversations whose turnsPerCycle is the break-even threshold itself, which
\* the division returns as 2.9999999999999996 and as 10.000000000000002
TieStates == Call("TieStates", <<>>)
TieStates_body ==
    {Conversation(ModelSonnet, "5min", 2, 11, 930, 690, 3),
     Conversation(ModelSonnet, "1hour", 2, 21, 3550, 950, 10)}

BreakEvenStates == Call("BreakEvenStates", <<>>)
BreakEvenStates_body ==
    {Conversation(m, ttl, 2, 3, prefix, z, k) :
        m \in {ModelSonnet, ModelNova, ModelFlatRead}, ttl \in {"5min", "1hour"},
        prefix \in BreakEvenPrefixes, z \in {0, 500}, k \in CycleLengths}
    \cup TieStates

InitBreakEven ==
    /\ pc = "input"
    /\ args \in BreakEvenStates
    /\ Idle

SpecBreakEven == InitBreakEven /\ [][RenderOnce]_vars

-----------------------------------------------------------------------------
(* C9, C10 *)

PInput == RMul(args.model.pricing.input_1k, TierMultiplier(args))
PRead == RMul(OrZero(args.model.pricing.cache_read_1k), TierMultiplier(args))
PWrite == RMul(getCacheWritePrice(args.model, EffectiveCacheTTL(args)), TierMultiplier(args))
PrefixTokens == args.sysTokens + args.ctxTokens

\* S * (pInput - pRead)
BreakEvenDenominator == RMul(R(args.summarySize), RSub(PInput, PRead))

\* (P+S)(pWrite-pRead) / (S(pInput-pRead)), the quotient of doubles
BreakEvenThreshold ==
    RDiv(RMul(R(PrefixTokens + args.summarySize), RSub(PWrite, PRead)), BreakEvenDenominator)

\* C9: summaryCachingViable is true exactly when
\* turnsPerCycle >= (P+S)(pWrite-pRead) / (S(pInput-pRead)), the threshold being
\* the quotient the doubles give; when S(pInput-pRead) <= 0 the threshold is
\* infinite and summaryCachingViable is false.
C9_ViableIffAtOrAboveBreakEven ==
    summarizationResult # NONE =>
        LET r == summarizationResult
        IN  IF RLt(R(0), BreakEvenDenominator)
            THEN /\ r.breakEvenK = BreakEvenThreshold
                 /\ r.summaryCachingViable <=> RLe(BreakEvenThreshold, R(r.turnsPerCycle))
                 /\ Close(RMul(BreakEvenThreshold, BreakEvenDenominator),
                          RMul(R(PrefixTokens + args.summarySize), RSub(PWrite, PRead)))
            ELSE r.breakEvenK = INF /\ ~r.summaryCachingViable

\* summary caching found viable against a positive, finite threshold
C9_Witness ==
    /\ summarizationResult # NONE
    /\ summarizationResult.summaryCachingViable
    /\ summarizationResult.breakEvenK # INF
    /\ RLt(R(1), summarizationResult.breakEvenK)

FiveMinuteTable ==
    /\ summarizationResult # NONE
    /\ args.model = ModelSonnet
    /\ EffectiveCacheTTL(args) = "5min"
    /\ args.summarySize = 500
    /\ PrefixTokens \in {1000, 2000, 3000, 5000, 10000, 50000}

\* the break-even table of the research note: minimum viable turns per cycle
DocMinTurns(prefix) ==
    CASE prefix = 1000 -> 4
      [] prefix = 2000 -> 6
      [] prefix = 3000 -> 9
      [] prefix = 5000 -> 14
      [] prefix = 10000 -> 27
      [] prefix = 50000 -> 129

\* the least integer at or above 1.15 (P + 500) / (0.9 * 500)
MinTurns(prefix) ==
    CASE prefix = 1000 -> 4
      [] prefix = 2000 -> 7
      [] prefix = 3000 -> 9
      [] prefix = 5000 -> 15
      [] prefix = 10000 -> 27
      [] prefix = 50000 -> 130

\* C10 as stated: with S = 500 and 5-minute prices the minimum viable turnsPerCycle
\* is 4, 6, 9, 14, 27, 129 for P = 1000, 2000, 3000, 5000, 10000, 50000.
C10_DocumentedMinimumTurns ==
    FiveMinuteTable =>
        (summarizationResult.summaryCachingViable <=> summarizationResult.turnsPerCycle >= DocMinTurns(PrefixTokens))

\* C10 amended: with S = 500 and 5-minute prices the minimum viable turnsPerCycle
\* is 4, 7, 9, 15, 27, 130 for P = 1000, 2000, 3000, 5000, 10000, 50000; for
\* P = 3000 it is viable at 12 turns and not viable at 6.
C10_MinimumTurns ==
    FiveMinuteTable =>
        /\ summarizationResult.summaryCachingViable <=> summarizationResult.turnsPerCycle >= MinTurns(PrefixTokens)
        /\ (PrefixTokens = 3000 /\ summarizationResult.turnsPerCycle = 12) => summarizationResult.summaryCachingViable
        /\ (PrefixTokens = 3000 /\ summarizationResult.turnsPerCycle = 6) => ~summarizationResult.summaryCachingViable

\* the largest prefix of the table at its first viable cycle length
C10_Witness ==
    /\ FiveMinuteTable
    /\ PrefixTokens = 50000
    /\ summarizationResult.turnsPerCycle = 130
    /\ summarizationResult.summaryCachingViable

-----------------------------------------------------------------------------
(* SpecSweep: the parameter sweep of the sensitivity chart                  *)
(* (paramSensitivityData and paramCrossoverLabels).  A sweep point is a     *)
(* record [value, isCurrent, costs, winner, winnerColor]; costs maps each   *)
(* strategy key set on the point to its total.  The sweep is built either   *)
(* from a workload, through the engine, or from a table of totals, which    *)
(* enters at the winner selection.  The keys of the summarization           *)
(* strategies are written with a plain hyphen.                              *)

CHART_COLORS(name) ==
    CASE name = "noCaching" -> "#f97316"
      [] name = "cachePrefix" -> "#3b82f6"
      [] name = "cacheSubmission" -> "#10b981"
      [] name = "batch" -> "#a855f7"

\* a tie-break that prefers the uncached strategy
TiebreakNoCachingFirst(key) ==
    CASE key \in {"No Caching", "Chat Sum. - No Cache"} -> 0
      [] key \in {"Per-Submission Cache", "Chat Sum. - Cache Prefix"} -> 1
      [] key = "Batch Inference" -> 2
      [] key \in {"Per-Assignment Cache", "Chat Sum. - Cache in Prefix"} -> 3
      [] OTHER -> 99

STRATEGY_TIEBREAK(key) ==
    CASE key \in {"Per-Assignment Cache", "Chat Sum. - Cache in Prefix"} -> 0
      [] key \in {"Per-Submission Cache", "Chat Sum. - Cache Prefix"} -> 1
      [] key = "Batch Inference" -> 2
      [] key \in {"No Caching", "Chat Sum. - No Cache"} -> 3
      [] OTHER -> 99

IsSumMode(a) == Call("IsSumMode", <<a>>)
IsSumMode_body(a) == a.summarizationEnabled /\ TEMPLATES(a.template).conversational

\* the totals set on the point computed for the workload a
PointCosts(a) == Call("PointCosts", <<a>>)
PointCosts_body(a) ==
    LET m == a.model
        tm == TierMultiplier(a)
        ttl == EffectiveCacheTTL(a)
        meta == TEMPLATES(a.template)
        effInst == getEffectiveInstTokens(a.instTokens, a.reqsPerStudent, a.outputTokens, meta.conversational)
        effSub == getEffectiveSubTokens(a.subTokens, a.reqsPerStudent, meta.progressiveSubmission)
        gr == IF a.guardrailsEnabled
              THEN computeGuardrailsCost(a.students * a.reqsPerStudent, effSub, a.outputTokens)
              ELSE R(0)
        base == IF IsSumMode(a)
                THEN ("Chat Sum. - No Cache" :> RAdd(computeSumNoCaching(m, a.students, a.reqsPerStudent, a.sysTokens, a.ctxTokens, effSub, a.instTokens, a.outputTokens, a.summarySize, tm).total, gr))
                     @@ ("Chat Sum. - Cache Prefix" :> RAdd(computeSumCacheAssessment(m, a.students, a.reqsPerStudent, a.sysTokens, a.ctxTokens, effSub, a.instTokens, a.outputTokens, a.summarySize, tm, ttl).total, gr))
                     @@ ("Chat Sum. - Cache in Prefix" :> RAdd(computeSumCacheSummary(m, a.students, a.reqsPerStudent, a.sysTokens, a.ctxTokens, effSub, a.instTokens, a.outputTokens, a.summarySize, tm, ttl).total, gr))
                ELSE ("No Caching" :> RAdd(computeNoCaching(m, a.students, a.reqsPerStudent, a.sysTokens, a.ctxTokens, effSub, effInst, a.outputTokens, tm).total, gr))
                     @@ ("Per-Assignment Cache" :> RAdd(computeStrategyA(m, a.students, a.reqsPerStudent, a.sysTokens, a.ctxTokens, effSub, effInst, a.outputTokens, tm, ttl).total, gr))
        stratB == IF DisplayMode(a.template) = "strategy-comparison"
                  THEN ("Per-Submission Cache" :> RAdd(computeStrategyB(m, a.students, a.reqsPerStudent, a.sysTokens, a.ctxTokens, effSub, effInst, a.outputTokens, tm, meta.submissionCacheable, ttl).total, gr))
                  ELSE <<>>
        batch == IF DisplayMode(a.template) = "strategy-comparison" /\ BatchIncluded(a)
                 THEN ("Batch Inference" :> RAdd(computeBatch(m, a.students, a.reqsPerStudent, a.sysTokens, a.ctxTokens, effSub, effInst, a.outputTokens, tm).total, gr))
                 ELSE <<>>
    IN  base @@ stratB @@ batch

\* costs.sort((a, b) => a[1] - b[1] || tiebreak(a) - tiebreak(b)) puts a before b
SortsBefore(costs, a, b) == Call("SortsBefore", <<costs, a, b>>)
SortsBefore_body(costs, a, b) ==
    \/ RLt(costs[a], costs[b])
    \/ costs[a] = costs[b] /\ STRATEGY_TIEBREAK(a) < STRATEGY_TIEBREAK(b)

\* costs[0]?.[0] ?? "" after the sort
Winner(costs) == Call("Winner", <<costs>>)
Winner_body(costs) ==
    IF DOMAIN costs = {} THEN ""
    ELSE CHOOSE k \in DOMAIN costs : \A j \in DOMAIN costs \ {k} : SortsBefore(costs, k, j)

colorMap(key) == Call("colorMap", <<key>>)
colorMap_body(key) ==
    CASE key \in {"No Caching", "Chat Sum. - No Cache"} -> CHART_COLORS("noCaching")
      [] key \in {"Per-Assignment Cache", "Chat Sum. - Cache Prefix"} -> CHART_COLORS("cachePrefix")
      [] key = "Per-Submission Cache" -> CHART_COLORS("cacheSubmission")
      [] key \in {"Batch Inference", "Chat Sum. - Cache in Prefix"} -> CHART_COLORS("batch")
      [] OTHER -> "#999"

SweepPoint(value, isCurrent, costs) == Call("SweepPoint", <<value, isCurrent, costs>>)
SweepPoint_body(value, isCurrent, costs) ==
    [value |-> value, isCurrent |-> isCurrent, costs |-> costs,
     winner |-> Winner(costs), winnerColor |-> colorMap(Winner(costs))]

\* rawData before the stabilization pass
RawData(a) == Call("RawData", <<a>>)
RawData_body(a) ==
    IF ~SupportsCaching(a) THEN <<>>
    ELSE LET currentValue == a[a.sensitivityParam]
             samplePoints == SamplePoints(a.sensitivityParam, currentValue)
         IN  [i \in 1..Len(samplePoints) |->
                 SweepPoint(samplePoints[i], samplePoints[i] = currentValue,
                            PointCosts([a EXCEPT ![a.sensitivityParam] = samplePoints[i]]))]

\* sorted[1] - sorted[0] of the totals set on the point, Infinity below two totals
Gap(costs) == Call("Gap", <<costs>>)
Gap_body(costs) ==
    IF Cardinality(DOMAIN costs) < 2 THEN INF
    ELSE LET k0 == CHOOSE k \in DOMAIN costs : \A j \in DOMAIN costs : RLe(costs[k], costs[j])
             k1 == CHOOSE k \in DOMAIN costs \ {k0} : \A j \in DOMAIN costs \ {k0} : RLe(costs[k], costs[j])
         IN  RSub(costs[k1], costs[k0])

NearTie(pt) == Call("NearTie", <<pt>>)
NearTie_body(pt) == Gap(pt.costs) # INF /\ RLt(Gap(pt.costs), Dec(1, 200))

\* the inner loop left after its first point: every run has length one
RunEndAfterOnePoint(data, rj) == rj

\* the inner loop: the first index at or after rj (0-based) that is not a near-tie
RECURSIVE RunEnd(_, _)
RunEnd(data, rj) ==
    IF rj < Len(data) /\ NearTie(data[rj + 1]) THEN RunEnd(data, rj + 1) ELSE rj

\* the last point of the run itself
ResolvedInsideRun(data, rj) == data[rj]

Resolved(data, rj) == IF rj < Len(data) THEN data[rj + 1] ELSE data[Len(data)]

\* crossovers placed at the left point of each change
CrossoversAtLeftPoint(data) ==
    LET changes == SelectSeq([i \in 1..(Len(data) - 1) |-> i], LAMBDA i : data[i].winner # data[i + 1].winner)
    IN  [k \in 1..Len(changes) |-> data[changes[k]].value]

Crossovers(data) ==
    LET changes == SelectSeq([i \in 1..(Len(data) - 1) |-> i], LAMBDA i : data[i].winner # data[i + 1].winner)
    IN  [k \in 1..Len(changes) |-> data[changes[k] + 1].value]

MaxPoints == 3

\* totals in thousandths of a currency unit
Thousandths(n) == Call("Thousandths", <<n>>)
Thousandths_body(n) == Dec(n, 1000)

TwoKeyProfile(noCaching, stratA) == Call("TwoKeyProfile", <<noCaching, stratA>>)
TwoKeyProfile_body(noCaching, stratA) ==
    ("No Caching" :> Thousandths(noCaching)) @@ ("Per-Assignment Cache" :> Thousandths(stratA))

FourKeyProfile(noCaching, stratA, stratB, batch) == Call("FourKeyProfile", <<noCaching, stratA, stratB, batch>>)
FourKeyProfile_body(noCaching, stratA, stratB, batch) ==
    TwoKeyProfile(noCaching, stratA)
    @@ ("Per-Submission Cache" :> Thousandths(stratB)) @@ ("Batch Inference" :> Thousandths(batch))

SumKeyProfile(sumNone, sumPrefix, sumFull) == Call("SumKeyProfile", <<sumNone, sumPrefix, sumFull>>)
SumKeyProfile_body(sumNone, sumPrefix, sumFull) ==
    ("Chat Sum. - No Cache" :> Thousandths(sumNone)) @@ ("Chat Sum. - Cache Prefix" :> Thousandths(sumPrefix))
    @@ ("Chat Sum. - Cache in Prefix" :> Thousandths(sumFull))

\* the three points of the documented example come first
TwoKeyProfiles == Call("TwoKeyProfiles", <<>>)
TwoKeyProfiles_body ==
    {TwoKeyProfile(10001, 9999), TwoKeyProfile(10000, 10000), TwoKeyProfile(12000, 8000),
     TwoKeyProfile(8000, 12000), TwoKeyProfile(9999, 10001), TwoKeyProfile(9995, 10000)}

FourKeyProfiles == Call("FourKeyProfiles", <<>>)
FourKeyProfiles_body ==
    {FourKeyProfile(10000, 10000, 10000, 10000), FourKeyProfile(10000, 10004, 10000, 12000),
     FourKeyProfile(12000, 11000, 9000, 9000), FourKeyProfile(9000, 12000, 11000, 9005)}

SumKeyProfiles == Call("SumKeyProfiles", <<>>)
SumKeyProfiles_body ==
    {SumKeyProfile(10000, 10000, 10000), SumKeyProfile(10000, 9998, 9999),
     SumKeyProfile(12000, 8000, 9000), SumKeyProfile(8000, 12000, 12000)}

TablesOver(profiles) ==
    UNION {[1..n -> profiles] : n \in 1..MaxPoints}

SweepTables == Call("SweepTables", <<>>)
SweepTables_body ==
    {[kind |-> "table", table |-> t] :
        t \in TablesOver(TwoKeyProfiles) \cup TablesOver(FourKeyProfiles) \cup TablesOver(SumKeyProfiles)}

DocTable == Call("DocTable", <<>>)
DocTable_body == <<TwoKeyProfile(10001, 9999), TwoKeyProfile(10000, 10000), TwoKeyProfile(12000, 8000)>>

\* a template with the state of its summarization switch
SweepTemplates == {<<"graf-simple", FALSE>>, <<"clarity-chat", FALSE>>, <<"clarity-chat", TRUE>>}

\* the parameters swept
SweptParams == {"students", "reqsPerStudent", "ctxTokens", "instTokens"}

SweepWorkloads == Call("SweepWorkloads", <<>>)
SweepWorkloads_body ==
    {[kind |-> "workload", sensitivityParam |-> param,
      template |-> tk[1], model |-> m,
      students |-> st, reqsPerStudent |-> rq,
      sysTokens |-> TEMPLATES(tk[1]).preset.sysTokens, ctxTokens |-> TEMPLATES(tk[1]).preset.ctxTokens,
      subTokens |-> TEMPLATES(tk[1]).preset.subTokens, instTokens |-> TEMPLATES(tk[1]).preset.instTokens,
      outputTokens |-> TEMPLATES(tk[1]).preset.outputTokens,
      pricingTier |-> "standard", cacheTTL |-> TEMPLATES(tk[1]).defaultCacheTTL,
      guardrailsEnabled |-> g, batchEnabled |-> TRUE,
      summarizationEnabled |-> tk[2], summarySize |-> TEMPLATES(tk[1]).defaultSummarySize] :
        param \in SweptParams, tk \in SweepTemplates,
        m \in {ModelSonnet, ModelLlama}, st \in {5}, rq \in {2}, g \in BOOLEAN}

\* one student sending ten short submissions against a 10000-token rubric,
\* swept over the instruction size
ShortSubmissionWorkload == Call("ShortSubmissionWorkload", <<>>)
ShortSubmissionWorkload_body ==
    [kind |-> "workload", sensitivityParam |-> "instTokens",
     template |-> "graf-simple", model |-> ModelSonnet,
     students |-> 1, reqsPerStudent |-> 10,
     sysTokens |-> 1000, ctxTokens |-> 10000, subTokens |-> 100, instTokens |-> 200, outputTokens |-> 100,
     pricingTier |-> "standard", cacheTTL |-> "5min",
     guardrailsEnabled |-> FALSE, batchEnabled |-> TRUE,
     summarizationEnabled |-> FALSE, summarySize |-> 500]

InitSweep ==
    /\ pc = "input"
    /\ args \in SweepWorkloads \/ args \in SweepTables \/ args = ShortSubmissionWorkload
    /\ Idle

\* paramSensitivityData up to the stabilization pass, for a workload
BuildRawData ==
    /\ pc = "input"
    /\ args.kind = "workload"
    /\ rawData' = RawData(args)
    /\ ri' = 0
    /\ pc' = "stabilize"
    /\ UNCHANGED <<args, results, sumStrategies, summarizationResult, sim, avgHistory, crossovers, subAtTurn, perStudent, historyAtTurn, pricingModule, app, interactions>>

\* the winner selection applied to a table of totals; values are the indices
LoadCostTable ==
    /\ pc = "input"
    /\ args.kind = "table"
    /\ rawData' = [i \in 1..Len(args.table) |-> SweepPoint(i, i = 1, args.table[i])]
    /\ ri' = 0
    /\ pc' = "stabilize"
    /\ UNCHANGED <<args, results, sumStrategies, summarizationResult, sim, avgHistory, crossovers, subAtTurn, perStudent, historyAtTurn, pricingModule, app, interactions>>

\* the outer loop's iteration copying the resolved point whole over the run
StabilizeStepCopyingPoint ==
    /\ pc = "stabilize"
    /\ ri < Len(rawData)
    /\ IF NearTie(rawData[ri + 1])
       THEN LET rj == RunEnd(rawData, ri + 1)
                resolved == Resolved(rawData, rj)
            IN  /\ rawData' = [k \in 1..Len(rawData) |->
                                  IF ri + 1 <= k /\ k <= rj THEN resolved ELSE rawData[k]]
                /\ ri' = rj
       ELSE /\ ri' = ri + 1
            /\ rawData' = rawData
    /\ UNCHANGED <<pc, args, results, sumStrategies, summarizationResult, sim, avgHistory, crossovers, subAtTurn, perStudent, historyAtTurn, pricingModule, app, interactions>>

\* one iteration of the outer loop of the stabilization pass
StabilizeStep ==
    /\ pc = "stabilize"
    /\ ri < Len(rawData)
    /\ IF NearTie(rawData[ri + 1])
       THEN LET rj == RunEnd(rawData, ri + 1)
                resolved == Resolved(rawData, rj)
            IN  /\ rawData' = [k \in 1..Len(rawData) |->
                                  IF ri + 1 <= k /\ k <= rj
                                  THEN [rawData[k] EXCEPT !.winner = resolved.winner,
                                                          !.winnerColor = resolved.winnerColor]
                                  ELSE rawData[k]]
                /\ ri' = rj
       ELSE /\ ri' = ri + 1
            /\ rawData' = rawData
    /\ UNCHANGED <<pc, args, results, sumStrategies, summarizationResult, sim, avgHistory, crossovers, subAtTurn, perStudent, historyAtTurn, pricingModule, app, interactions>>

\* the pass is over: paramSensitivityData is returned and paramCrossoverLabels reads it
ComputeCrossovers ==
    /\ pc = "stabilize"
    /\ ri >= Len(rawData)
    /\ crossovers' = Crossovers(rawData)
    /\ pc' = "done"
    /\ UNCHANGED <<args, results, sumStrategies, summarizationResult, sim, avgHistory, rawData, ri, subAtTurn, perStudent, historyAtTurn, pricingModule, app, interactions>>

NextSweep == BuildRawData \/ LoadCostTable \/ StabilizeStep \/ ComputeCrossovers

SpecSweep == InitSweep /\ [][NextSweep]_vars

-----------------------------------------------------------------------------
(* C2, C3, C4, C5 *)

SweepRaw == pc = "stabilize" /\ ri = 0

SweepDone == pc = "done"

\* the order of the tie-break as the claim lists it
ClaimedOrder(key) ==
    CASE key \in {"Per-Assignment Cache", "Chat Sum. - Cache in Prefix"} -> 1
      [] key \in {"Per-Submission Cache", "Chat Sum. - Cache Prefix"} -> 2
      [] key = "Batch Inference" -> 3
      [] key \in {"No Caching", "Chat Sum. - No Cache"} -> 4

\* the points after i that are not near-ties
ClearAfter(i) == {j \in (i + 1)..Len(rawData) : ~NearTie(rawData[j])}

FirstClearAfter(i) == CHOOSE j \in ClearAfter(i) : \A k \in ClearAfter(i) : j <= k

\* C2: after the stabilization pass every point of a run of near-ties (two cheapest
\* totals less than 0.005 apart) carries the winner and the winner colour selected
\* at the first point after the run, or at the last grid point when the run reaches
\* the end of the grid; points outside runs keep their own winner; the three points
\* of the documented example all carry the winner of the third.
C2_RunTakesWinnerAfterRun ==
    SweepDone =>
        /\ \A i \in 1..Len(rawData) :
               LET src == IF ~NearTie(rawData[i]) THEN i
                          ELSE IF ClearAfter(i) # {} THEN FirstClearAfter(i)
                          ELSE Len(rawData)
               IN  /\ rawData[i].winner = Winner(rawData[src].costs)
                   /\ rawData[i].winnerColor = colorMap(Winner(rawData[src].costs))
        /\ (args.kind = "table" /\ args.table = DocTable) =>
               /\ rawData[1].winner = rawData[3].winner
               /\ rawData[2].winner = rawData[3].winner

\* a run, in a sweep of a workload, whose first point changed winner to that of the
\* point after the run
C2_Witness ==
    /\ SweepDone
    /\ args.kind = "workload"
    /\ \E i \in 1..Len(rawData) :
           /\ NearTie(rawData[i])
           /\ ClearAfter(i) # {}
           /\ Winner(rawData[i].costs) # rawData[i].winner
           /\ rawData[i].winner = rawData[FirstClearAfter(i)].winner

\* C3: before stabilization the winner of every sweep point is a strategy set on
\* the point whose total is minimal there, and among the strategies with exactly
\* that total it is the first in the order Per-Assignment Cache / Chat Sum. Cache
\* in Prefix, Per-Submission Cache / Chat Sum. Cache Prefix, Batch Inference,
\* No Caching / Chat Sum. No Cache.
C3_RawWinnerIsCheapestInFixedOrder ==
    SweepRaw =>
        \A i \in 1..Len(rawData) :
            LET pt == rawData[i]
            IN  /\ pt.winner \in DOMAIN pt.costs
                /\ \A k \in DOMAIN pt.costs : RLe(pt.costs[pt.winner], pt.costs[k])
                /\ \A k \in DOMAIN pt.costs \ {pt.winner} :
                       pt.costs[k] = pt.costs[pt.winner] => ClaimedOrder(pt.winner) < ClaimedOrder(k)

\* an unstabilized point where Per-Submission Cache and Batch Inference tie exactly
\* for the minimum, below the other two
C3_Witness ==
    /\ SweepRaw
    /\ \E i \in 1..Len(rawData) :
           LET pt == rawData[i]
           IN  /\ DOMAIN pt.costs = {"No Caching", "Per-Assignment Cache", "Per-Submission Cache", "Batch Inference"}
               /\ pt.costs["Per-Submission Cache"] = pt.costs["Batch Inference"]
               /\ RLt(pt.costs["Batch Inference"], pt.costs["Per-Assignment Cache"])
               /\ pt.winner = "Per-Submission Cache"

WinnerChanges == {i \in 1..(Len(rawData) - 1) : rawData[i].winner # rawData[i + 1].winner}

\* C4: the crossover list holds the value of point i+1 for exactly the adjacent
\* pairs (i, i+1) of the stabilized sweep whose winners differ, in ascending order,
\* and has as many entries as there are winner changes.
C4_CrossoversAreWinnerChanges ==
    SweepDone =>
        /\ Len(crossovers) = Cardinality(WinnerChanges)
        /\ {crossovers[k] : k \in 1..Len(crossovers)} = {rawData[i + 1].value : i \in WinnerChanges}
        /\ \A k \in 1..(Len(crossovers) - 1) : crossovers[k] < crossovers[k + 1]

\* a workload sweep with a crossover, and not at its first point
C4_Witness ==
    /\ SweepDone
    /\ args.kind = "workload"
    /\ Len(crossovers) >= 1
    /\ crossovers[1] > rawData[2].value

InGrid(param, v) == Call("InGrid", <<param, v>>)
InGrid_body(param, v) == \E i \in 1..numPoints : GridPoints(param)[i] = v

\* C5: whenever the sweep of a workload is produced (the model supports caching),
\* for every swept parameter and current value its values are strictly increasing,
\* they are the 40 grid values with the current value inserted in sorted position
\* when the grid lacks it, and exactly the point of the current value is flagged
\* as current.
C5_SweepValuesIncreasingWithCurrent ==
    (pc \in {"stabilize", "done"} /\ args.kind = "workload" /\ SupportsCaching(args)) =>
        LET currentValue == args[args.sensitivityParam]
            grid == GridPoints(args.sensitivityParam)
            values == {rawData[i].value : i \in 1..Len(rawData)}
        IN  /\ \A i \in 1..(Len(rawData) - 1) : rawData[i].value < rawData[i + 1].value
            /\ values = {grid[i] : i \in 1..numPoints} \cup {currentValue}
            /\ Len(rawData) = IF InGrid(args.sensitivityParam, currentValue) THEN numPoints ELSE numPoints + 1
            /\ \A i \in 1..Len(rawData) : rawData[i].isCurrent <=> rawData[i].value = currentValue
            /\ Cardinality({i \in 1..Len(rawData) : rawData[i].isCurrent}) = 1

\* the current value was missing from the grid and sits strictly inside the sweep
C5_Witness ==
    /\ pc = "done"
    /\ args.kind = "workload"
    /\ Len(rawData) = numPoints + 1
    /\ \E i \in 2..numPoints : rawData[i].isCurrent /\ rawData[i].value = args[args.sensitivityParam]


-----------------------------------------------------------------------------
(* SpecFlat: the engine's strategy functions applied to bounded arguments. *)
(* The price list is Claude 3.5 Sonnet's with every subset of its optional *)
(* prices absent; the token counts include the documented class of 30      *)
(* students and 5 turns.                                                   *)

MaxFlatStudents == 2
MaxFlatTurns == 3

OptionalPrices == {"cache_write_1k", "cache_write_1hour_1k", "cache_read_1k", "batch_input_1k", "batch_output_1k"}

PriceListWithout(absent, supports1Hour) == Call("PriceListWithout", <<absent, supports1Hour>>)
PriceListWithout_body(absent, supports1Hour) ==
    [provider |-> ModelSonnet.provider,
     pricing |-> [input_1k |-> ModelSonnet.pricing.input_1k,
                  output_1k |-> ModelSonnet.pricing.output_1k,
                  cache_write_1k |-> IF "cache_write_1k" \in absent THEN NULL ELSE ModelSonnet.pricing.cache_write_1k,
                  cache_write_1hour_1k |-> IF "cache_write_1hour_1k" \in absent THEN NULL ELSE ModelSonnet.pricing.cache_write_1hour_1k,
                  cache_read_1k |-> IF "cache_read_1k" \in absent THEN NULL ELSE ModelSonnet.pricing.cache_read_1k,
                  batch_input_1k |-> IF "batch_input_1k" \in absent THEN NULL ELSE ModelSonnet.pricing.batch_input_1k,
                  batch_output_1k |-> IF "batch_output_1k" \in absent THEN NULL ELSE ModelSonnet.pricing.batch_output_1k],
     constraints |-> [supports_batch |-> TRUE, supports_caching |-> TRUE, supports_1hour_cache |-> supports1Hour,
                      supported_tiers |-> {"standard"}]]

FlatModels == Call("FlatModels", <<>>)
FlatModels_body == {PriceListWithout(absent, s1h) : absent \in SUBSET OptionalPrices, s1h \in BOOLEAN}

FlatInput(m, st, rq, ctx, tm, ttl, sc) ==
    [model |-> m, students |-> st, reqsPerStudent |-> rq,
     sysTokens |-> 1000, ctxTokens |-> ctx, subTokens |-> 2000, instTokens |-> 500, outputTokens |-> 1000,
     summarySize |-> 200, tierMultiplier |-> tm, cacheTTL |-> ttl, submissionCacheable |-> sc]

\* every price list on one class, and the full price list on every class
FlatInputs == Call("FlatInputs", <<>>)
FlatInputs_body ==
    {FlatInput(m, MaxFlatStudents, MaxFlatTurns, 15000, R(1), ttl, sc) :
        m \in FlatModels, ttl \in {"5min", "1hour"}, sc \in BOOLEAN}
    \cup
    {FlatInput(PriceListWithout({}, s1h), st, rq, ctx, tm, ttl, sc) :
        s1h \in BOOLEAN, st \in (1..MaxFlatStudents) \cup {30}, rq \in (1..MaxFlatTurns) \cup {5},
        ctx \in {0, 15000},
        tm \in {R(1), Dec(7, 4)}, ttl \in {"5min", "1hour"}, sc \in BOOLEAN}

FlatResults(a) == Call("FlatResults", <<a>>)
FlatResults_body(a) ==
    [noCaching |-> computeNoCaching(a.model, a.students, a.reqsPerStudent, a.sysTokens, a.ctxTokens, R(a.subTokens), R(a.instTokens), a.outputTokens, a.tierMultiplier),
     batch |-> computeBatch(a.model, a.students, a.reqsPerStudent, a.sysTokens, a.ctxTokens, R(a.subTokens), R(a.instTokens), a.outputTokens, a.tierMultiplier),
     strategyA |-> computeStrategyA(a.model, a.students, a.reqsPerStudent, a.sysTokens, a.ctxTokens, R(a.subTokens), R(a.instTokens), a.outputTokens, a.tierMultiplier, EffectiveCacheTTL(a)),
     strategyB |-> computeStrategyB(a.model, a.students, a.reqsPerStudent, a.sysTokens, a.ctxTokens, R(a.subTokens), R(a.instTokens), a.outputTokens, a.tierMultiplier, a.submissionCacheable, EffectiveCacheTTL(a))]

FlatSumResults(a) == Call("FlatSumResults", <<a>>)
FlatSumResults_body(a) ==
    [noCaching |-> computeSumNoCaching(a.model, a.students, a.reqsPerStudent, a.sysTokens, a.ctxTokens, R(a.subTokens), a.instTokens, a.outputTokens, a.summarySize, a.tierMultiplier),
     cacheAssessment |-> computeSumCacheAssessment(a.model, a.students, a.reqsPerStudent, a.sysTokens, a.ctxTokens, R(a.subTokens), a.instTokens, a.outputTokens, a.summarySize, a.tierMultiplier, EffectiveCacheTTL(a)),
     cacheSummary |-> computeSumCacheSummary(a.model, a.students, a.reqsPerStudent, a.sysTokens, a.ctxTokens, R(a.subTokens), a.instTokens, a.outputTokens, a.summarySize, a.tierMultiplier, EffectiveCacheTTL(a))]

InitFlat ==
    /\ pc = "input"
    /\ args \in FlatInputs
    /\ Idle

CallFlatStrategies ==
    /\ pc = "input"
    /\ results' = FlatResults(args)
    /\ pc' = "flat"
    /\ UNCHANGED <<args, sumStrategies, summarizationResult, sim, avgHistory, rawData, ri, crossovers, subAtTurn, perStudent, historyAtTurn, pricingModule, app, interactions>>

CallSumStrategies ==
    /\ pc = "flat"
    /\ sumStrategies' = FlatSumResults(args)
    /\ pc' = "done"
    /\ UNCHANGED <<args, results, summarizationResult, sim, avgHistory, rawData, ri, crossovers, subAtTurn, perStudent, historyAtTurn, pricingModule, app, interactions>>

NextFlat == CallFlatStrategies \/ CallSumStrategies

SpecFlat == InitFlat /\ [][NextFlat]_vars

FlatCalled == pc \in {"flat", "done"}

FlatPInput == RMul(args.model.pricing.input_1k, args.tierMultiplier)

FlatPRead == RMul(OrZero(args.model.pricing.cache_read_1k), args.tierMultiplier)

FlatPWrite == RMul(getCacheWritePrice(args.model, EffectiveCacheTTL(args)), args.tierMultiplier)

FlatTotalRequests == args.students * args.reqsPerStudent

-----------------------------------------------------------------------------
(* C11 *)

\* N = (cacheWritePrice - cacheReadPrice) / (inputPrice - cacheReadPrice)
AmortizationThreshold == RDiv(RSub(FlatPWrite, FlatPRead), RSub(FlatPInput, FlatPRead))

\* C11: where the cache-read price is below the input price, the finite
\* threshold N = (write - read) / (input - read) separates the request counts:
\* computeStrategyA's total is strictly below computeNoCaching's total for
\* every totalRequests above N, and not below it at or under N.
C11_CachingWinsAboveThreshold ==
    (FlatCalled /\ RLt(FlatPRead, FlatPInput)) =>
        (RLt(results.strategyA.total, results.noCaching.total)
            <=> RLt(AmortizationThreshold, R(FlatTotalRequests)))

\* both sides of a positive threshold are met: the 1-hour write price puts N
\* at 19/9, so two requests lose and three win
C11_Witness ==
    /\ FlatCalled
    /\ RLt(FlatPRead, FlatPInput)
    /\ RLt(R(2), AmortizationThreshold)
    /\ FlatTotalRequests = 3
    /\ RLt(results.strategyA.total, results.noCaching.total)


-----------------------------------------------------------------------------
(* C12 *)

NoCachingAt(a) == Call("NoCachingAt", <<a>>)
NoCachingAt_body(a) ==
    computeNoCaching(a.model, a.students, a.reqsPerStudent, a.sysTokens, a.ctxTokens, R(a.subTokens), R(a.instTokens), a.outputTokens, a.tierMultiplier)

NoCachingFields == {"sysTokens", "ctxTokens", "subTokens", "instTokens", "outputTokens", "students", "reqsPerStudent"}

RaiseSteps == {1, 1000}

\* the arguments with one field raised and the others held fixed
Raised(a, field, step) == [a EXCEPT ![field] = @ + step]

\* C12: raising any one of sysTokens, ctxTokens, subTokens, instTokens,
\* outputTokens, students or reqsPerStudent, the other arguments held fixed,
\* never lowers computeNoCaching's total.
C12_NoCachingMonotone ==
    FlatCalled =>
        /\ results.noCaching = NoCachingAt(args)
        /\ \A field \in NoCachingFields, step \in RaiseSteps :
               RLe(results.noCaching.total, NoCachingAt(Raised(args, field, step)).total)

\* a call whose total strictly grows with every one of the seven fields
C12_Witness ==
    /\ FlatCalled
    /\ RLt(R(0), results.noCaching.total)
    /\ \A field \in NoCachingFields :
           RLt(results.noCaching.total, NoCachingAt(Raised(args, field, 1)).total)


-----------------------------------------------------------------------------
(* C13 *)

\* 30 students, 5 turns, 1000 + 15000 cached tokens, 2000 + 500 fresh tokens,
\* 1000 output tokens, input at 0.003, cache read at 0.0003, tier multiplier 1
DocumentedClass ==
    /\ args.students = 30 /\ args.reqsPerStudent = 5
    /\ args.sysTokens = 1000 /\ args.ctxTokens = 15000
    /\ args.subTokens = 2000 /\ args.instTokens = 500 /\ args.outputTokens = 1000
    /\ args.model.pricing.input_1k = Dec(3, 1000)
    /\ args.model.pricing.cache_read_1k = Dec(3, 10000)
    /\ args.tierMultiplier = R(1)

\* the cache write is billed at the 5-minute price, 1.25 times the input price
DocumentedWritePrice ==
    /\ EffectiveCacheTTL(args) = "5min"
    /\ args.model.pricing.cache_write_1k = Dec(3, 800)

\* C13: on the documented class computeStrategyA's cacheRead is
\* 149 * 16 * 0.0003 = 0.7152 (read totalRequests - 1 times), its cacheWrite
\* at 1.25 times the input price is 16 * 0.00375 = 0.06 (written once), and
\* computeNoCaching's freshInput is 150 * 18.5 * 0.003 = 8.325.
C13_DocumentedClassCosts ==
    (FlatCalled /\ DocumentedClass) =>
        /\ results.strategyA.cacheRead = Dec(7152, 10000)
        /\ results.noCaching.freshInput = Dec(8325, 1000)
        /\ DocumentedWritePrice => results.strategyA.cacheWrite = Dec(6, 100)

C13_Witness ==
    /\ FlatCalled /\ DocumentedClass /\ DocumentedWritePrice
    /\ results.strategyA.cacheRead = Dec(7152, 10000)
    /\ results.noCaching.freshInput = Dec(8325, 1000)


-----------------------------------------------------------------------------
(* C14 *)

\* a defined, finite, non-negative number
Numeric(x) == x # NULL /\ x # INF /\ x.s >= 0

BreakdownFields == {"cacheWrite", "cacheRead", "freshInput", "output", "guardrails", "total"}

DefinedBreakdown(b) == \A f \in BreakdownFields : Numeric(b[f])

CachingBreakdowns == {results.strategyA, results.strategyB, sumStrategies.cacheAssessment, sumStrategies.cacheSummary}

AllBreakdownsDefined ==
    /\ \A b \in {results.noCaching, results.batch, results.strategyA, results.strategyB} : DefinedBreakdown(b)
    /\ \A b \in {sumStrategies.noCaching, sumStrategies.cacheAssessment, sumStrategies.cacheSummary} :
           DefinedBreakdown(b) /\ Numeric(b.summarizationCalls)

Absent(price) == args.model.pricing[price] = NULL

\* no cache-write price applies: the 5-minute price is absent and the 1-hour
\* price is absent or not the one selected
NoWritePrice ==
    Absent("cache_write_1k") /\ (EffectiveCacheTTL(args) = "5min" \/ Absent("cache_write_1hour_1k"))

\* cached span of computeStrategyA billed at the 5-minute write price
WriteAtFiveMinutePrice ==
    RMul(Per1k(R(args.sysTokens + args.ctxTokens)),
         RMul(OrZero(args.model.pricing.cache_write_1k), args.tierMultiplier))

\* C14 as stated: every strategy function returns a defined breakdown and
\* each absent optional price contributes 0 to the cost.
C14_AbsentPriceCostsNothing ==
    pc = "done" =>
        /\ AllBreakdownsDefined
        /\ Absent("cache_read_1k") => \A b \in CachingBreakdowns : b.cacheRead = R(0)
        /\ NoWritePrice => \A b \in CachingBreakdowns : b.cacheWrite = R(0)
        /\ (Absent("cache_write_1hour_1k") /\ EffectiveCacheTTL(args) = "1hour") => results.strategyA.cacheWrite = R(0)
        /\ Absent("batch_input_1k") => results.batch.freshInput = R(0)
        /\ Absent("batch_output_1k") => results.batch.output = R(0)

\* C14: for every subset of the optional prices absent, every strategy
\* function returns a defined numeric breakdown; an absent cache-read price
\* and an absent cache-write price contribute 0, an absent 1-hour write price
\* falls back to the 5-minute price, and an absent batch price falls back to
\* the on-demand price, so that computeBatch bills what computeNoCaching does.
C14_AbsentPriceFallbacks ==
    pc = "done" =>
        /\ AllBreakdownsDefined
        /\ Absent("cache_read_1k") => \A b \in CachingBreakdowns : b.cacheRead = R(0)
        /\ NoWritePrice => \A b \in CachingBreakdowns : b.cacheWrite = R(0)
        /\ (Absent("cache_write_1hour_1k") /\ EffectiveCacheTTL(args) = "1hour") => results.strategyA.cacheWrite = WriteAtFiveMinutePrice
        /\ Absent("batch_input_1k") => results.batch.freshInput = results.noCaching.freshInput
        /\ Absent("batch_output_1k") => results.batch.output = results.noCaching.output

\* every optional price absent: caching costs nothing to write or read and
\* the batch total is the on-demand total
C14_Witness ==
    /\ pc = "done"
    /\ \A price \in OptionalPrices : Absent(price)
    /\ AllBreakdownsDefined
    /\ results.strategyA.cacheWrite = R(0) /\ results.strategyA.cacheRead = R(0)
    /\ results.batch.total = results.noCaching.total
    /\ RLt(R(0), results.batch.total)


-----------------------------------------------------------------------------
(* C15 *)

\* the 1-hour price when 1hour is requested and the model supports it, the
\* 5-minute price otherwise, 0 when the model has no such price
ClaimedWritePrice ==
    LET p == args.model.pricing
    IN  IF args.cacheTTL = "1hour" /\ args.model.constraints.supports_1hour_cache /\ p.cache_write_1hour_1k # NULL
        THEN p.cache_write_1hour_1k
        ELSE IF p.cache_write_1k # NULL THEN p.cache_write_1k
        ELSE R(0)

\* the model with ClaimedWritePrice as its only cache-write price
ModelAtClaimedWritePrice ==
    [args.model EXCEPT !.pricing.cache_write_1k = ClaimedWritePrice, !.pricing.cache_write_1hour_1k = NULL]

\* C15: every caching strategy bills its cache writes at the 1-hour price
\* when cacheTTL is 1hour and the model supports it, at the 5-minute price
\* when 1-hour is requested but unsupported (or 5min is requested), and at 0
\* when the model has no cache-write price.
C15_WritePriceSelection ==
    pc = "done" =>
        LET a == args
            m == ModelAtClaimedWritePrice
        IN  /\ results.strategyA.cacheWrite =
                   RMul(Per1k(R(a.sysTokens + a.ctxTokens)), RMul(ClaimedWritePrice, a.tierMultiplier))
            /\ results.strategyA = computeStrategyA(m, a.students, a.reqsPerStudent, a.sysTokens, a.ctxTokens, R(a.subTokens), R(a.instTokens), a.outputTokens, a.tierMultiplier, "5min")
            /\ results.strategyB = computeStrategyB(m, a.students, a.reqsPerStudent, a.sysTokens, a.ctxTokens, R(a.subTokens), R(a.instTokens), a.outputTokens, a.tierMultiplier, a.submissionCacheable, "5min")
            /\ sumStrategies.cacheAssessment = computeSumCacheAssessment(m, a.students, a.reqsPerStudent, a.sysTokens, a.ctxTokens, R(a.subTokens), a.instTokens, a.outputTokens, a.summarySize, a.tierMultiplier, "5min")
            /\ sumStrategies.cacheSummary = computeSumCacheSummary(m, a.students, a.reqsPerStudent, a.sysTokens, a.ctxTokens, R(a.subTokens), a.instTokens, a.outputTokens, a.summarySize, a.tierMultiplier, "5min")

\* 1hour requested on a model that has both prices but no 1-hour support:
\* the write is billed at the 5-minute price
C15_Witness ==
    /\ pc = "done"
    /\ args.cacheTTL = "1hour"
    /\ ~args.model.constraints.supports_1hour_cache
    /\ ~Absent("cache_write_1k") /\ ~Absent("cache_write_1hour_1k")
    /\ results.strategyA.cacheWrite = WriteAtFiveMinutePrice
    /\ RLt(R(0), results.strategyA.cacheWrite)

\* 1hour requested and supported: the write is billed at the 1-hour price
C15_WitnessOneHour ==
    /\ pc = "done"
    /\ args.cacheTTL = "1hour"
    /\ args.model.constraints.supports_1hour_cache
    /\ ~Absent("cache_write_1hour_1k")
    /\ RLt(WriteAtFiveMinutePrice, results.strategyB.cacheWrite)


-----------------------------------------------------------------------------
(* C16 *)

\* a number, neither NaN nor Infinity
Finite(x) == x # NULL /\ x # INF /\ x.s \in {-1, 0, 1}

\* totals of the three summarization strategies for the conversation of args
\* (2 students, 1000 + 1000 prefix tokens, 500-token messages, Claude 3.5 Sonnet)
ConversationTotals ==
    {computeSumNoCaching(ModelSonnet, 2, args.reqsPerStudent, 1000, 1000, R(500), args.historyCap, args.outputTokens, args.summarySize, R(1)).total,
     computeSumCacheAssessment(ModelSonnet, 2, args.reqsPerStudent, 1000, 1000, R(500), args.historyCap, args.outputTokens, args.summarySize, R(1), "5min").total,
     computeSumCacheSummary(ModelSonnet, 2, args.reqsPerStudent, 1000, 1000, R(500), args.historyCap, args.outputTokens, args.summarySize, R(1), "5min").total}

\* C16: degenerate inputs give a defined result: computeAvgHistoryTokens
\* returns 0 when turns <= 0 or cap <= 0 and cap when tokensPerExchange <= 0;
\* simulateSummarization returns the empty all-zero trace when turns, cap or
\* tokensPerExchange is <= 0; computeSubTokensAtTurn returns subTokens when
\* reqsPerStudent <= 1; every returned average and every cost total is a
\* finite number.
C16_DegenerateInputsDefined ==
    /\ avgHistory # NONE =>
           /\ Finite(avgHistory)
           /\ (args.reqsPerStudent <= 0 \/ args.historyCap <= 0) => avgHistory = R(0)
           /\ (args.reqsPerStudent > 0 /\ args.historyCap > 0 /\ Tpe <= 0) => avgHistory = R(args.historyCap)
    /\ (pc = "returned" /\ avgHistory = NONE /\ subAtTurn = NONE /\ historyAtTurn = NONE) =>
           \A total \in ConversationTotals : Finite(total)
    /\ pc = "returned" =>
           /\ Finite(sim.avgHistoryPerTurn)
           /\ (args.reqsPerStudent <= 0 \/ args.historyCap <= 0 \/ Tpe <= 0) =>
                  /\ sim.historyPerTurn = <<>> /\ sim.summarizationTurns = <<>>
                  /\ sim.totalHistoryTokensSent = 0 /\ sim.avgHistoryPerTurn = R(0)
                  /\ sim.numSummarizations = 0 /\ sim.turnsPerCycle = 0
    /\ (subAtTurn # NONE /\ args.reqsPerStudent <= 1) => subAtTurn.value = subAtTurn.subTokens

\* a one-turn conversation without output tokens: the average is the cap,
\* the trace is empty and the progressive submission is sent whole
C16_Witness ==
    /\ pc = "returned"
    /\ args.reqsPerStudent = 1 /\ args.historyCap > 0 /\ Tpe <= 0
    /\ avgHistory # NONE /\ avgHistory = R(args.historyCap)
    /\ sim = EmptySim
    /\ subAtTurn # NONE /\ subAtTurn.progressiveSubmission
    /\ subAtTurn.value = subAtTurn.subTokens


-----------------------------------------------------------------------------
(* SpecPass: computeSumCacheSummary step by step.  The call simulates the  *)
(* conversation, the per-student loop runs one turn per step, the return   *)
(* applies the shared-prefix corrections; computeStrategyA is then applied *)
(* to the same workload.                                                   *)

MaxPassStudents == 2
MaxPassTurns == 6

PassInputs == Call("PassInputs", <<>>)
PassInputs_body ==
    {[model |-> m, students |-> st, reqsPerStudent |-> rq,
      sysTokens |-> 1000, ctxTokens |-> ctx, subTokens |-> 500, instTokens |-> cap, outputTokens |-> out,
      summarySize |-> z, tierMultiplier |-> R(1), cacheTTL |-> ttl] :
        m \in {ModelSonnet, ModelNova}, st \in 1..MaxPassStudents, rq \in 1..MaxPassTurns,
        ctx \in {0, 3000}, cap \in {400, 1000}, out \in {160, 400}, z \in {0, 100, 300},
        ttl \in {"5min", "1hour"}}

PassPInput == RMul(args.model.pricing.input_1k, args.tierMultiplier)

PassPWrite == RMul(getCacheWritePrice(args.model, EffectiveCacheTTL(args)), args.tierMultiplier)

PassPRead == RMul(OrZero(args.model.pricing.cache_read_1k), args.tierMultiplier)

AssessmentPrefix == args.sysTokens + args.ctxTokens

FullPrefix == AssessmentPrefix + args.summarySize

InitPass ==
    /\ pc = "call"
    /\ args \in PassInputs
    /\ Idle

PassCall ==
    /\ pc = "call"
    /\ sim' = simulateSummarization(args.reqsPerStudent, args.instTokens, args.outputTokens, args.summarySize)
    /\ perStudent' = [t |-> 1, acc |-> PerStudentStart]
    /\ pc' = "pass"
    /\ UNCHANGED <<args, results, sumStrategies, summarizationResult, avgHistory, rawData, ri, crossovers, subAtTurn, historyAtTurn, pricingModule, app, interactions>>

PassTurn ==
    /\ pc = "pass"
    /\ perStudent.t <= args.reqsPerStudent
    /\ perStudent' = [t |-> perStudent.t + 1,
                      acc |-> PerStudentTurn(perStudent.acc, perStudent.t, sim, AssessmentPrefix, FullPrefix,
                                             R(args.subTokens), args.summarySize, PassPInput, PassPWrite, PassPRead)]
    /\ UNCHANGED <<pc, args, results, sumStrategies, summarizationResult, sim, avgHistory, rawData, ri, crossovers, subAtTurn, historyAtTurn, pricingModule, app, interactions>>

PassReturn ==
    /\ pc = "pass"
    /\ perStudent.t > args.reqsPerStudent
    /\ sumStrategies' = [cacheSummary |->
           SumCacheSummaryReturn(perStudent.acc, sim, args.model, args.students, args.reqsPerStudent, args.sysTokens, args.ctxTokens,
                                 args.instTokens, args.outputTokens, args.summarySize, args.tierMultiplier, EffectiveCacheTTL(args))]
    /\ pc' = "returned"
    /\ UNCHANGED <<args, results, summarizationResult, sim, avgHistory, rawData, ri, crossovers, subAtTurn, perStudent, historyAtTurn, pricingModule, app, interactions>>

StrategyACall ==
    /\ pc = "returned"
    /\ results' = [strategyA |->
           computeStrategyA(args.model, args.students, args.reqsPerStudent, args.sysTokens, args.ctxTokens,
                            R(args.subTokens), R(args.instTokens), args.outputTokens, args.tierMultiplier, EffectiveCacheTTL(args))]
    /\ pc' = "done"
    /\ UNCHANGED <<args, sumStrategies, summarizationResult, sim, avgHistory, rawData, ri, crossovers, subAtTurn, perStudent, historyAtTurn, pricingModule, app, interactions>>

NextPass == PassCall \/ PassTurn \/ PassReturn \/ StrategyACall

SpecPass == InitPass /\ [][NextPass]_vars


-----------------------------------------------------------------------------
(* C17, C18 *)

SumTurnSet == {sim.summarizationTurns[i] : i \in 1..Len(sim.summarizationTurns)}

\* a summarization event happened on a turn before t
AfterSummary(t) == \E e \in SumTurnSet : e < t

\* turn 1, or the turn that follows a summarization event
FollowsSummary(t) == t = 1 \/ (t - 1) \in SumTurnSet

\* among the first k turns: those on which the prefix is written, those on which it is read
WriteTurnsUpTo(k) == {t \in 1..k : FollowsSummary(t)}

ReadTurnsUpTo(k) == {t \in 1..k : ~FollowsSummary(t)}

\* count times (tokens / 1000) times price
SpanCost(count, tokens, price) == Call("SpanCost", <<count, tokens, price>>)
SpanCost_body(count, tokens, price) == RMul(RMul(R(count), Per1k(R(tokens))), price)

\* per student, the read turns whose prefix holds a summary
SummaryReadTurns == Cardinality({t \in ReadTurnsUpTo(args.reqsPerStudent) : AfterSummary(t)})

\* what the breakdown bills for the shared span: its cacheWrite and cacheRead
\* less the writes and reads of the students' summaries
SharedSpanWritten ==
    RSub(sumStrategies.cacheSummary.cacheWrite,
         SpanCost(args.students * sim.numSummarizations, args.summarySize, PassPWrite))

SharedSpanRead ==
    RSub(sumStrategies.cacheSummary.cacheRead,
         SpanCost(args.students * SummaryReadTurns, args.summarySize, PassPRead))

\* C17 as stated: for every trace, with or without summarization events, the
\* shared span is billed as written once and read totalRequests - 1 times,
\* which is what computeStrategyA bills for it.
C17_SharedSpanAsStrategyA ==
    pc = "done" =>
        /\ Close(SharedSpanWritten, results.strategyA.cacheWrite)
        /\ Close(SharedSpanRead, results.strategyA.cacheRead)

\* C17: the corrections leave the shared span written once for the class plus
\* once per student and summarization event, and read on the remaining
\* requests: 1 + students * numSummarizations writes and
\* totalRequests - 1 - students * numSummarizations reads.  Without a
\* summarization event that is one write and totalRequests - 1 reads,
\* computeStrategyA's cacheWrite and cacheRead.
C17_SharedSpanWrittenPerSummary ==
    pc = "done" =>
        LET rewrites == args.students * sim.numSummarizations
        IN  /\ Close(SharedSpanWritten, SpanCost(1 + rewrites, AssessmentPrefix, PassPWrite))
            /\ Close(SharedSpanRead, SpanCost(args.students * args.reqsPerStudent - 1 - rewrites, AssessmentPrefix, PassPRead))
            /\ sim.numSummarizations = 0 =>
                   /\ Close(sumStrategies.cacheSummary.cacheWrite, results.strategyA.cacheWrite)
                   /\ Close(sumStrategies.cacheSummary.cacheRead, results.strategyA.cacheRead)

\* several students, several summarization events, a priced write, and some
\* reads of a prefix that holds a summary
C17_Witness ==
    /\ pc = "done"
    /\ args.students >= 2 /\ sim.numSummarizations >= 2 /\ SummaryReadTurns >= 1
    /\ args.summarySize > 0
    /\ RLt(R(0), PassPWrite)
    /\ Close(SharedSpanWritten, SpanCost(1 + args.students * sim.numSummarizations, AssessmentPrefix, PassPWrite))
    /\ RLt(RAdd(results.strategyA.cacheWrite, Tolerance), SharedSpanWritten)

\* history sent fresh on turn t: less the summary once one is in the prefix
FreshHistoryAt(t) ==
    IF AfterSummary(t)
    THEN (IF sim.historyPerTurn[t] - args.summarySize > 0 THEN sim.historyPerTurn[t] - args.summarySize ELSE 0)
    ELSE sim.historyPerTurn[t]

RECURSIVE FreshTokensUpTo(_)
FreshTokensUpTo(k) == IF k <= 0 THEN 0 ELSE FreshTokensUpTo(k - 1) + args.subTokens + FreshHistoryAt(k)

\* C18: after k turns of the per-student pass, the prefix has been written
\* on turn 1 and on every turn that follows a summarization event and read
\* on every other turn, at system+context before the first event and at
\* system+context+summarySize on the turns after it, and the fresh history
\* is less the summary size on those later turns only; over the whole pass
\* that is 1 + numSummarizations writes and turns - 1 - numSummarizations
\* reads per student.
C18_WriteAfterSummaryReadOtherwise ==
    perStudent # NONE =>
        LET k == perStudent.t - 1
            writes == WriteTurnsUpTo(k)
            reads == ReadTurnsUpTo(k)
        IN  /\ Close(perStudent.acc.perStudentCacheWrite,
                     RAdd(SpanCost(Cardinality(writes), AssessmentPrefix, PassPWrite),
                          SpanCost(Cardinality({t \in writes : AfterSummary(t)}), args.summarySize, PassPWrite)))
            /\ Close(perStudent.acc.perStudentCacheRead,
                     RAdd(SpanCost(Cardinality(reads), AssessmentPrefix, PassPRead),
                          SpanCost(Cardinality({t \in reads : AfterSummary(t)}), args.summarySize, PassPRead)))
            /\ Close(perStudent.acc.perStudentFreshInput, RMul(Per1k(R(FreshTokensUpTo(k))), PassPInput))
            /\ perStudent.acc.hasSummary = AfterSummary(k)
            /\ k = args.reqsPerStudent =>
                   /\ Cardinality(writes) = 1 + sim.numSummarizations
                   /\ Cardinality(reads) = args.reqsPerStudent - 1 - sim.numSummarizations

\* a finished pass with two events, a read of a prefix that holds a summary
\* and a read of one that does not
C18_Witness ==
    /\ perStudent # NONE
    /\ perStudent.t > args.reqsPerStudent
    /\ sim.numSummarizations >= 2
    /\ args.summarySize > 0 /\ RLt(R(0), PassPWrite)
    /\ \E t \in ReadTurnsUpTo(args.reqsPerStudent) : AfterSummary(t)
    /\ \E t \in ReadTurnsUpTo(args.reqsPerStudent) : ~AfterSummary(t)
    /\ perStudent.acc.hasSummary


-----------------------------------------------------------------------------
(* SpecCycle: the render of Spec on conversations long enough to hold      *)
(* several summarization cycles.  One exchange is 100 tokens and the cap   *)
(* is summarySize + 100 * K, so that turnsPerCycle is K.                    *)

MaxCycleTurns == 8

CycleStates == Call("CycleStates", <<>>)
CycleStates_body ==
    {Conversation(m, ttl, 2, rq, prefix, z, k) :
        m \in {ModelSonnet, ModelNova}, ttl \in {"5min", "1hour"}, rq \in {13, 30},
        prefix \in {1000, 5000}, z \in {100, 500}, k \in 1..MaxCycleTurns}
    \cup TieStates

InitCycle ==
    /\ pc = "input"
    /\ args \in CycleStates
    /\ Idle

SpecCycle == InitCycle /\ [][RenderOnce]_vars

-----------------------------------------------------------------------------
(* C19 *)

BelowBreakEven ==
    /\ pc = "done"
    /\ summarizationResult # NONE /\ sumStrategies # NONE
    /\ RLt(PRead, PInput)
    /\ args.summarySize < args.instTokens
    /\ RLt(R(summarizationResult.turnsPerCycle), summarizationResult.breakEvenK)

\* C19: where the cache-read price is below the input price, the summary is
\* smaller than the history cap and turnsPerCycle is below breakEvenK,
\* computeSumCacheSummary's total is not lower than
\* computeSumCacheAssessment's total by more than Tolerance.
C19_NoGainBelowBreakEven ==
    BelowBreakEven => RLe(sumStrategies.cacheAssessment.total, RAdd(sumStrategies.cacheSummary.total, Tolerance))

\* below a finite threshold, after at least two summarization events, caching
\* the summary costs strictly more
C19_Witness ==
    /\ BelowBreakEven
    /\ summarizationResult.breakEvenK # INF
    /\ summarizationResult.numSummarizations >= 2
    /\ RLt(sumStrategies.cacheAssessment.total, sumStrategies.cacheSummary.total)

\* at or above the threshold caching the summary does pay
C19_WitnessAbove ==
    /\ pc = "done"
    /\ summarizationResult # NONE /\ sumStrategies # NONE
    /\ RLt(R(1), summarizationResult.breakEvenK)
    /\ RLe(summarizationResult.breakEvenK, R(summarizationResult.turnsPerCycle))
    /\ RLt(sumStrategies.cacheSummary.total, sumStrategies.cacheAssessment.total)


-----------------------------------------------------------------------------
(* C20 *)

\* the lowest total on a sweep point
CheapestTotal(costs) == Call("CheapestTotal", <<costs>>)
CheapestTotal_body(costs) ==
    LET k0 == CHOOSE k \in DOMAIN costs : \A j \in DOMAIN costs : RLe(costs[k], costs[j])
    IN  costs[k0]

\* the winner recorded on point i is cheapest there or, the point being a
\* near-tie, less than 0.005 above the cheapest total
WinnerCheapestOrNearTied(i) ==
    LET pt == rawData[i]
    IN  /\ pt.winner \in DOMAIN pt.costs
        /\ \/ pt.costs[pt.winner] = CheapestTotal(pt.costs)
           \/ /\ NearTie(pt)
              /\ RLt(RSub(pt.costs[pt.winner], CheapestTotal(pt.costs)), Dec(1, 200))

\* C20: after the stabilization pass the winner recorded at every sweep point
\* is the cheapest strategy set on the point or, at a near-tie point, one
\* whose total is within 0.005 of the cheapest total there, whether 2, 3 or
\* 4 strategies are enabled.
C20_WinnerCheapestOrWithinEpsilon ==
    SweepDone => \A i \in 1..Len(rawData) : WinnerCheapestOrNearTied(i)

\* the same on sweeps of two strategies, where a near-tie leaves no third
\* strategy to be carried back from the point after the run
C20_TwoStrategies ==
    (SweepDone /\ \A i \in 1..Len(rawData) : Cardinality(DOMAIN rawData[i].costs) <= 2) =>
        \A i \in 1..Len(rawData) : WinnerCheapestOrNearTied(i)

\* the sweep of ShortSubmissionWorkload: Per-Submission Cache is cheapest at
\* 200 instruction tokens, Per-Assignment Cache is within 0.005 of it, and the
\* point is recorded for Batch Inference, which costs 0.08 more there
C20_BatchRecordedWhereCachingIsCheapest ==
    /\ SweepDone
    /\ args = ShortSubmissionWorkload
    /\ \E i \in 1..Len(rawData) :
           LET pt == rawData[i]
           IN  /\ pt.value = 200 /\ pt.isCurrent
               /\ NearTie(pt)
               /\ pt.costs["Per-Submission Cache"] = CheapestTotal(pt.costs)
               /\ pt.winner = "Batch Inference"
               /\ RLt(Dec(8, 100), RSub(pt.costs["Batch Inference"], CheapestTotal(pt.costs)))
-----------------------------------------------------------------------------
(* C21 *)

\* the turn at which a history growing from 0 first reaches the cap
FirstSummarizationTurn == CeilDiv(args.historyCap, Tpe)

\* C21: for summarySize < historyCap, turnsPerCycle is ceil((historyCap -
\* summarySize) / tokensPerExchange); a summarization fires exactly when
\* ceil(historyCap / tokensPerExchange) is before the final turn, the first one
\* fires at that turn, and every two consecutive summarization turns differ by
\* exactly turnsPerCycle.
C21_CycleLengthIsSteadyState ==
    (SimReturned /\ args.summarySize < args.historyCap) =>
        LET st == sim.summarizationTurns
        IN  /\ sim.turnsPerCycle = CeilDiv(args.historyCap - args.summarySize, Tpe)
            /\ (FirstSummarizationTurn < args.reqsPerStudent) <=> (Len(st) >= 1)
            /\ Len(st) >= 1 => st[1] = FirstSummarizationTurn
            /\ \A i \in 1..(Len(st) - 1) : st[i + 1] - st[i] = sim.turnsPerCycle

\* a run with a summary kept has summarized three times, its cycle shorter than
\* the first ramp
C21_Witness ==
    /\ SimReturned
    /\ 0 < args.summarySize /\ args.summarySize < args.historyCap
    /\ Len(sim.summarizationTurns) >= 3
    /\ sim.turnsPerCycle < FirstSummarizationTurn
    /\ sim.summarizationTurns[2] - sim.summarizationTurns[1] = sim.turnsPerCycle

-----------------------------------------------------------------------------
(* C22 *)

\* the loop of a call with 0 <= summarySize < historyCap is running or has returned
SimRecording ==
    /\ pc \in {"loop", "returned"}
    /\ ~SimDegenerate(args.reqsPerStudent, args.historyCap, Tpe)
    /\ 0 <= args.summarySize /\ args.summarySize < args.historyCap

\* C22: with 0 <= summarySize < historyCap every recorded history lies in
\* [0, historyCap], and every value recorded after the first summarization turn
\* is at least summarySize.
C22_HistoryWithinCap ==
    SimRecording =>
        LET h == sim.historyPerTurn
            st == sim.summarizationTurns
        IN  /\ \A i \in 1..Len(h) : 0 <= h[i] /\ h[i] <= args.historyCap
            /\ Len(st) >= 1 => \A i \in (st[1] + 1)..Len(h) : h[i] >= args.summarySize

\* a returned trace that summarized, then recorded the summary alone and later a
\* history above it
C22_Witness ==
    /\ SimRecording /\ pc = "returned"
    /\ args.summarySize > 0
    /\ Len(sim.summarizationTurns) >= 1
    /\ LET h == sim.historyPerTurn
           first == sim.summarizationTurns[1]
       IN  /\ h[first + 1] = args.summarySize
           /\ \E i \in (first + 2)..Len(h) : h[i] > args.summarySize
           /\ \E i \in 1..first : h[i] > args.summarySize

-----------------------------------------------------------------------------
(* C23 *)

\* both computeAvgHistoryTokens and the per-turn computeHistoryAtTurn have been
\* called, with turns >= 1, cap > 0 and tokensPerExchange > 0
GraduatedBothCalled ==
    /\ avgHistory # NONE /\ historyAtTurn # NONE
    /\ args.reqsPerStudent >= 1 /\ args.historyCap > 0 /\ Tpe > 0

\* C23: for turns >= 1, cap > 0 and tokensPerExchange > 0 the graduated average
\* times the number of turns equals, to within Tolerance, the sum over the turns
\* of computeHistoryAtTurn, each of which is min((t - 1) * tokensPerExchange, cap),
\* and the per-turn view holds these values when it holds any;
\* the documented session of 12 turns, cap 2000 and 500 tokens per exchange
\* totals 19,000 (average 1,583 to the nearest token).
C23_AverageAgreesWithPerTurn ==
    GraduatedBothCalled =>
        LET perTurn == [t \in 1..args.reqsPerStudent |-> computeHistoryAtTurn(t, args.historyCap, args.outputTokens)]
        IN  /\ historyAtTurn.history \in {<<>>, perTurn}
            /\ Close(RMul(avgHistory, R(args.reqsPerStudent)), R(SumSeq(perTurn)))
            /\ \A t \in 1..args.reqsPerStudent :
                   perTurn[t] = IF (t - 1) * Tpe < args.historyCap THEN (t - 1) * Tpe ELSE args.historyCap
            /\ args = DocExample => SumSeq(perTurn) = 19000 /\ Round(avgHistory) = 1583

\* the documented session in the per-turn view of a conversational template: a
\* ramp of four turns followed by eight capped turns
C23_Witness ==
    /\ GraduatedBothCalled
    /\ args = DocExample
    /\ historyAtTurn.isConversational
    /\ historyAtTurn.history[4] = 1500 /\ historyAtTurn.history[5] = 2000 /\ historyAtTurn.history[12] = 2000
    /\ avgHistory = Dec(4750, 3)

-----------------------------------------------------------------------------
(* C24 *)

\* the span at the head of the prompt that computeStrategyB caches and re-reads
LeadingSpan ==
    IF args.submissionCacheable THEN args.sysTokens + args.ctxTokens + args.subTokens
    ELSE args.sysTokens + args.ctxTokens

\* how often the leading span is written and read
LeadingWrites == IF args.submissionCacheable THEN args.students ELSE 1

LeadingReads ==
    IF args.submissionCacheable THEN args.students * (args.reqsPerStudent - 1)
    ELSE FlatTotalRequests - 1

\* C24: computeStrategyB with a cacheable submission charges one write per
\* student and reqsPerStudent - 1 reads per student over system + context +
\* submission; with a non-cacheable submission it charges one write of system +
\* context, a write of the submission on every request and totalRequests - 1
\* reads of system + context.  In both branches the fresh input is the
\* instruction tokens on every request, and the writes and reads of the leading
\* span number totalRequests together.
C24_StrategyBWritesAndReads ==
    FlatCalled =>
        LET b == results.strategyB
            submissionWrites == IF args.submissionCacheable THEN 0 ELSE FlatTotalRequests
        IN  /\ b.cacheWrite = RAdd(SpanCost(LeadingWrites, LeadingSpan, FlatPWrite),
                                   SpanCost(submissionWrites, args.subTokens, FlatPWrite))
            /\ b.cacheRead = SpanCost(LeadingReads, LeadingSpan, FlatPRead)
            /\ b.freshInput = SpanCost(FlatTotalRequests, args.instTokens, FlatPInput)
            /\ LeadingWrites + LeadingReads = FlatTotalRequests

\* a class of 30 students over 5 turns with a submission that changes every
\* turn: the submission is written 150 times, at a price
C24_Witness ==
    /\ FlatCalled
    /\ ~args.submissionCacheable
    /\ args.students = 30 /\ args.reqsPerStudent = 5
    /\ RLt(R(0), FlatPWrite) /\ RLt(R(0), FlatPRead)
    /\ LeadingReads = 149
    /\ RLt(SpanCost(150, args.subTokens, FlatPWrite), results.strategyB.cacheWrite)

\* the same class with a submission that is stable per student
C24_WitnessCacheable ==
    /\ FlatCalled
    /\ args.submissionCacheable
    /\ args.students = 30 /\ args.reqsPerStudent = 5
    /\ RLt(R(0), FlatPWrite) /\ RLt(R(0), FlatPRead)
    /\ LeadingReads = 120
    /\ results.strategyB.cacheRead = SpanCost(120, LeadingSpan, FlatPRead)

-----------------------------------------------------------------------------
(* C25 *)

\* C25: when the submission is not cacheable, computeStrategyB's total exceeds
\* computeStrategyA's by totalRequests * subTokens / 1000 * (pWrite - pInput),
\* to within Tolerance; so with a cache-write price at least the input price it
\* is never lower.
C25_CachingChangingContentNeverPays ==
    (FlatCalled /\ ~args.submissionCacheable) =>
        /\ Close(RSub(results.strategyB.total, results.strategyA.total),
                 SpanCost(FlatTotalRequests, args.subTokens, RSub(FlatPWrite, FlatPInput)))
        /\ RLe(FlatPInput, FlatPWrite) => RLe(results.strategyA.total, RAdd(results.strategyB.total, Tolerance))

\* three requests with a changing submission, written at a price above the
\* input price: Per-Submission Cache costs strictly more
C25_Witness ==
    /\ FlatCalled /\ ~args.submissionCacheable
    /\ FlatTotalRequests = 3
    /\ RLt(FlatPInput, FlatPWrite)
    /\ RLt(results.strategyA.total, results.strategyB.total)

-----------------------------------------------------------------------------
(* C26 *)

\* C26: after the stabilization pass every near-tie point other than the last
\* carries the winner of the point that follows it, and no crossover marker
\* stands at the point that follows a near-tie point.
C26_NearTieSharesNextWinner ==
    SweepDone =>
        \A i \in 1..(Len(rawData) - 1) :
            NearTie(rawData[i]) =>
                /\ rawData[i].winner = rawData[i + 1].winner
                /\ \A k \in 1..Len(crossovers) : crossovers[k] # rawData[i + 1].value

\* two near-tie points in a row whose cheapest strategies differ, followed by a
\* clear point whose winner the first of them carries
C26_Witness ==
    /\ SweepDone
    /\ \E i \in 1..(Len(rawData) - 2) :
           /\ NearTie(rawData[i]) /\ NearTie(rawData[i + 1]) /\ ~NearTie(rawData[i + 2])
           /\ Winner(rawData[i].costs) # Winner(rawData[i + 1].costs)
           /\ Winner(rawData[i + 1].costs) # Winner(rawData[i + 2].costs)
           /\ rawData[i].winner = rawData[i + 2].winner

-----------------------------------------------------------------------------
(* C27 *)

\* what a step taken during or at the end of the pass leaves of point k
PointFrameKept(k) ==
    /\ rawData'[k].value = rawData[k].value
    /\ rawData'[k].costs = rawData[k].costs
    /\ rawData'[k].isCurrent = rawData[k].isCurrent
    /\ DOMAIN rawData'[k] = DOMAIN rawData[k]
    /\ ~NearTie(rawData[k]) =>
           /\ rawData[k].winner = Winner(rawData[k].costs)
           /\ rawData'[k] = rawData[k]

\* C27: every step of the stabilization pass keeps the number and the order of
\* the points and each point's value, totals and isCurrent flag; a point whose
\* two cheapest totals differ by at least 0.005 carries its raw winner and is
\* left as it is; and the scan index strictly increases without passing the
\* number of points, so the pass ends after visiting each point once.
C27_PassChangesOnlyNearTieWinners ==
    [][pc = "stabilize" =>
          /\ Len(rawData') = Len(rawData)
          /\ \A k \in 1..Len(rawData) : PointFrameKept(k)
          /\ pc' = "stabilize" => (ri < ri' /\ ri' <= Len(rawData))]_vars

\* the pass has ended on a sweep where it rewrote the winner of a near-tie point
\* and stepped over a clear point
C27_Witness ==
    /\ SweepDone
    /\ ri = Len(rawData)
    /\ \E i, j \in 1..Len(rawData) :
           /\ NearTie(rawData[i]) /\ rawData[i].winner # Winner(rawData[i].costs)
           /\ ~NearTie(rawData[j]) /\ rawData[j].winner = Winner(rawData[j].costs)

-----------------------------------------------------------------------------
(* C28 *)

\* the render is complete with both caching summarization strategies computed
SumCachingComputed ==
    /\ pc = "done"
    /\ sumStrategies # NONE /\ sumStrategies.cacheAssessment # NONE /\ sumStrategies.cacheSummary # NONE
    /\ results.strategyA # NONE

\* the simulation of the conversation fires no summarization event
NoSummarizationFires ==
    simulateSummarization(args.reqsPerStudent, args.instTokens, args.outputTokens, args.summarySize).numSummarizations = 0

\* C28: no summarization event fires exactly when (turns - 1) *
\* tokensPerExchange < historyCap, and then computeSumCacheSummary and
\* computeSumCacheAssessment return the same cacheWrite, cacheRead, freshInput,
\* output and total with summarizationCalls = 0, and that total is
\* computeStrategyA's total with instTokens replaced by
\* computeAvgHistoryTokens(historyCap, turns, outputTokens); amounts added up
\* in a different order are the same to within Tolerance.
C28_NoSummarizationMeansStrategyA ==
    SumCachingComputed =>
        LET ca == sumStrategies.cacheAssessment
            cs == sumStrategies.cacheSummary
            tpe == computeTokensPerExchange(args.outputTokens)
        IN  /\ NoSummarizationFires <=> (args.reqsPerStudent - 1) * tpe < args.instTokens
            /\ NoSummarizationFires =>
                   /\ Close(cs.cacheWrite, ca.cacheWrite) /\ Close(cs.cacheRead, ca.cacheRead)
                   /\ Close(cs.freshInput, ca.freshInput) /\ cs.output = ca.output
                   /\ Close(cs.total, ca.total)
                   /\ cs.summarizationCalls = R(0) /\ ca.summarizationCalls = R(0)
                   /\ Close(ca.total, results.strategyA.total)
                   /\ EffectiveInstTokens(args) = computeAvgHistoryTokens(args.instTokens, args.reqsPerStudent, args.outputTokens)

\* a class of several students whose conversation of ten turns stops one
\* exchange short of the cap, with a history that costs something
C28_Witness ==
    /\ SumCachingComputed
    /\ NoSummarizationFires
    /\ args.students >= 2 /\ args.reqsPerStudent = 10
    /\ (args.reqsPerStudent * computeTokensPerExchange(args.outputTokens)) >= args.instTokens
    /\ RLt(R(0), EffectiveInstTokens(args))
    /\ Close(sumStrategies.cacheSummary.total, results.strategyA.total)

-----------------------------------------------------------------------------
(* C29 *)

\* C29 as stated: when at least one summarization event fires, turnsPerCycle
\* > 0 and summarySize * (pInput - pRead) > 0, summaryCachingViable is true
\* exactly when summaryCachingSavings >= 0; when no event fires
\* summaryCachingSavings is 0.
C29_ViableIffSavingsNotNegativeExactly ==
    (pc = "done" /\ summarizationResult # NONE) =>
        LET r == summarizationResult
        IN  /\ (r.numSummarizations > 0 /\ r.turnsPerCycle > 0 /\ RLt(R(0), BreakEvenDenominator)) =>
                   (r.summaryCachingViable <=> RLe(R(0), r.summaryCachingSavings))
            /\ r.numSummarizations = 0 => r.summaryCachingSavings = R(0)

\* C29 amended: when at least one summarization event fires, turnsPerCycle > 0
\* and summarySize * (pInput - pRead) > 0, summaryCachingViable is true exactly
\* when turnsPerCycle >= breakEvenK; summaryCachingSavings is not below
\* -Tolerance when summaryCachingViable is true and not above Tolerance when it
\* is false; it is below 0 when turnsPerCycle is one turn or more under
\* breakEvenK and above 0 when it is one turn or more over it.  When no event
\* fires summaryCachingSavings is 0.
C29_ViableIffSavingsNotNegative ==
    (pc = "done" /\ summarizationResult # NONE) =>
        LET r == summarizationResult
        IN  /\ (r.numSummarizations > 0 /\ r.turnsPerCycle > 0 /\ RLt(R(0), BreakEvenDenominator)) =>
                   /\ r.summaryCachingViable <=> RLe(r.breakEvenK, R(r.turnsPerCycle))
                   /\ r.summaryCachingViable => RLe(RNeg(Tolerance), r.summaryCachingSavings)
                   /\ ~r.summaryCachingViable => RLe(r.summaryCachingSavings, Tolerance)
                   /\ RLe(R(r.turnsPerCycle + 1), r.breakEvenK) => RLt(r.summaryCachingSavings, R(0))
                   /\ RLe(r.breakEvenK, R(r.turnsPerCycle - 1)) => RLt(R(0), r.summaryCachingSavings)
            /\ r.numSummarizations = 0 => r.summaryCachingSavings = R(0)

\* turnsPerCycle is the threshold, and the division returns a rounding error
\* less: viable, with an estimate a rounding error below 0
C29_WitnessTie ==
    /\ pc = "done" /\ summarizationResult # NONE
    /\ args \in TieStates
    /\ summarizationResult.turnsPerCycle = 3
    /\ RLt(summarizationResult.breakEvenK, R(3))
    /\ summarizationResult.summaryCachingViable
    /\ RLt(summarizationResult.summaryCachingSavings, R(0))
    /\ RLt(RNeg(Tolerance), summarizationResult.summaryCachingSavings)

\* turnsPerCycle is the threshold, and the division returns a rounding error
\* more: not viable, with an estimate a rounding error above 0
C29_WitnessTieAbove ==
    /\ pc = "done" /\ summarizationResult # NONE
    /\ args \in TieStates
    /\ summarizationResult.turnsPerCycle = 10
    /\ RLt(R(10), summarizationResult.breakEvenK)
    /\ ~summarizationResult.summaryCachingViable
    /\ RLt(R(0), summarizationResult.summaryCachingSavings)
    /\ RLt(summarizationResult.summaryCachingSavings, Tolerance)

\* a conversation of several cycles one turn short of the threshold: not viable,
\* and the estimate is a loss
C29_Witness ==
    /\ pc = "done" /\ summarizationResult # NONE
    /\ summarizationResult.numSummarizations >= 2
    /\ RLt(R(0), BreakEvenDenominator)
    /\ RLt(R(summarizationResult.turnsPerCycle), summarizationResult.breakEvenK)
    /\ RLe(summarizationResult.breakEvenK, R(summarizationResult.turnsPerCycle + 1))
    /\ ~summarizationResult.summaryCachingViable
    /\ RLt(summarizationResult.summaryCachingSavings, R(0))

\* at the threshold or above it: viable, and the estimate is not a loss
C29_WitnessViable ==
    /\ pc = "done" /\ summarizationResult # NONE
    /\ summarizationResult.numSummarizations >= 2
    /\ RLt(R(0), BreakEvenDenominator) /\ RLt(R(0), PWrite)
    /\ summarizationResult.summaryCachingViable
    /\ RLe(R(0), summarizationResult.summaryCachingSavings)

-----------------------------------------------------------------------------
(* SpecLoad: the App component mounts and loads the price list.  Its      *)
(* effect makes call 1 of fetchPricingData; further calls may be made at  *)
(* any time after the mount.  Each call that finds no cached data makes   *)
(* a network request, whose response and whose body the network decides.  *)

MaxCalls == 3

\* the content of data/pricing.json as deployed
PricingFile == Call("PricingFile", <<>>)
PricingFile_body == [metadata |-> [last_updated |-> "2026-01-15", currency |-> "USD"], models |-> Models]

\* the file after a later deployment
LaterPricingFile == Call("LaterPricingFile", <<>>)
LaterPricingFile_body == [PricingFile EXCEPT !.metadata.last_updated = "2026-02-01"]

\* what fetch() can come back with: a rejection, whose message is the
\* browser's and may be empty, or a response with a status
Responses == {"network error", "network error without message", "status 404", "status 500", "status 200"}

\* what resp.json() can come back with: a rejection, or the value the body
\* parses to, which is the file, a later file or the literal null
Bodies == {"malformed", "pricing", "later pricing", "null"}

\* the values that if (...) takes as false among those held here: null, and
\* the empty message that setError receives
Truthy(v) == v \notin {NONE, [message |-> ""]}

IdleCall == [stage |-> "idle", value |-> NONE, message |-> ""]

ResolvedCall(data) == [stage |-> "resolved", value |-> data, message |-> ""]

RejectedCall(message) == [stage |-> "rejected", value |-> NONE, message |-> message]

\* fetchPricingData up to its first await: the cached data, or a network request
FetchStart(m, c) == Call("FetchStart", <<m, c>>)
FetchStart_body(m, c) ==
    IF Truthy(m.cachedData)
    THEN [m EXCEPT !.calls[c] = ResolvedCall(m.cachedData)]
    ELSE [m EXCEPT !.calls[c].stage = "fetching", !.requests = @ + 1]

\* await fetch(...) has settled; if (!resp.ok) throw
FetchSettled(m, c, response) == Call("FetchSettled", <<m, c, response>>)
FetchSettled_body(m, c, response) ==
    CASE response = "network error" -> [m EXCEPT !.calls[c] = RejectedCall("Failed to fetch")]
      [] response = "network error without message" -> [m EXCEPT !.calls[c] = RejectedCall("")]
      [] response = "status 404" -> [m EXCEPT !.calls[c] = RejectedCall("Failed to load pricing data: 404")]
      [] response = "status 500" -> [m EXCEPT !.calls[c] = RejectedCall("Failed to load pricing data: 500")]
      [] response = "status 200" -> [m EXCEPT !.calls[c].stage = "parsing"]

\* cachedData = await resp.json(); return cachedData: whatever the body parses
\* to is stored, over what is cached, and returned
JsonSettled(m, c, body) == Call("JsonSettled", <<m, c, body>>)
JsonSettled_body(m, c, body) ==
    IF body = "malformed"
    THEN [m EXCEPT !.calls[c] = RejectedCall("Unexpected token in JSON")]
    ELSE LET json == CASE body = "pricing" -> PricingFile
                       [] body = "later pricing" -> LaterPricingFile
                       [] body = "null" -> NONE
         IN  [m EXCEPT !.cachedData = json, !.calls[c] = ResolvedCall(json)]

getPricingData(m) == Call("getPricingData", <<m>>)
getPricingData_body(m) ==
    IF ~Truthy(m.cachedData)
    THEN [threw |-> TRUE, data |-> NONE]
    ELSE [threw |-> FALSE, data |-> m.cachedData]

\* App rendering the router without waiting for ready
ViewWithoutWaiting(a) ==
    IF Truthy(a.error) THEN "error" ELSE "router"

\* what App returns: the error screen, the loading screen or the router
View(a) ==
    IF Truthy(a.error) THEN "error"
    ELSE IF ~a.ready THEN "loading"
    ELSE "router"

InitLoad ==
    /\ pc = "mount"
    /\ args = [kind |-> "app"]
    /\ IdleEngine
    /\ pricingModule = [cachedData |-> NONE, calls |-> [c \in 1..MaxCalls |-> IdleCall], requests |-> 0]
    /\ app = [ready |-> FALSE, error |-> NONE, settled |-> FALSE, routerRendered |-> FALSE, threw |-> FALSE]

\* useEffect(() => { fetchPricingData()... }, []) after the first render
AppEffect ==
    /\ pc = "mount"
    /\ pricingModule' = FetchStart(pricingModule, 1)
    /\ pc' = "mounted"
    /\ UNCHANGED <<args, results, sumStrategies, summarizationResult, sim, avgHistory, rawData, ri, crossovers, subAtTurn, perStudent, historyAtTurn, app, interactions>>

\* another call of fetchPricingData
LaterCall ==
    /\ pc = "mounted"
    /\ \E c \in 2..MaxCalls :
           /\ pricingModule.calls[c].stage = "idle"
           /\ pricingModule' = FetchStart(pricingModule, c)
    /\ UNCHANGED <<pc, args, results, sumStrategies, summarizationResult, sim, avgHistory, rawData, ri, crossovers, subAtTurn, perStudent, historyAtTurn, app, interactions>>

ResponseArrives ==
    /\ \E c \in 1..MaxCalls, response \in Responses :
           /\ pricingModule.calls[c].stage = "fetching"
           /\ pricingModule' = FetchSettled(pricingModule, c, response)
    /\ UNCHANGED <<pc, args, results, sumStrategies, summarizationResult, sim, avgHistory, rawData, ri, crossovers, subAtTurn, perStudent, historyAtTurn, app, interactions>>

BodyParsed ==
    /\ \E c \in 1..MaxCalls, body \in Bodies :
           /\ pricingModule.calls[c].stage = "parsing"
           /\ pricingModule' = JsonSettled(pricingModule, c, body)
    /\ UNCHANGED <<pc, args, results, sumStrategies, summarizationResult, sim, avgHistory, rawData, ri, crossovers, subAtTurn, perStudent, historyAtTurn, app, interactions>>

\* .then(() => setReady(true))
AppThen ==
    /\ ~app.settled
    /\ pricingModule.calls[1].stage = "resolved"
    /\ app' = [app EXCEPT !.ready = TRUE, !.settled = TRUE]
    /\ UNCHANGED <<pc, args, results, sumStrategies, summarizationResult, sim, avgHistory, rawData, ri, crossovers, subAtTurn, perStudent, historyAtTurn, pricingModule, interactions>>

\* .catch((e) => setError(e.message))
AppCatch ==
    /\ ~app.settled
    /\ pricingModule.calls[1].stage = "rejected"
    /\ app' = [app EXCEPT !.error = [message |-> pricingModule.calls[1].message], !.settled = TRUE]
    /\ UNCHANGED <<pc, args, results, sumStrategies, summarizationResult, sim, avgHistory, rawData, ri, crossovers, subAtTurn, perStudent, historyAtTurn, pricingModule, interactions>>

\* App returns the router: the layout and the page call getPricingData, on
\* the first render and on every later one
RenderRouter ==
    /\ View(app) = "router"
    /\ app' = [app EXCEPT !.routerRendered = TRUE, !.threw = @ \/ getPricingData(pricingModule).threw]
    /\ UNCHANGED <<pc, args, results, sumStrategies, summarizationResult, sim, avgHistory, rawData, ri, crossovers, subAtTurn, perStudent, historyAtTurn, pricingModule, interactions>>

NextLoad == AppEffect \/ LaterCall \/ ResponseArrives \/ BodyParsed \/ AppThen \/ AppCatch \/ RenderRouter

SpecLoad == InitLoad /\ [][NextLoad]_vars

-----------------------------------------------------------------------------
(* C30 *)

\* call c is started by this step
CallStarts(c) ==
    pricingModule.calls[c].stage = "idle" /\ pricingModule'.calls[c].stage # "idle"

\* a call that has made its request and has not settled
InFlight(c) == pricingModule.calls[c].stage \in {"fetching", "parsing"}

\* a call has resolved with a value that counts as no data
ResolvedWithoutData ==
    \E c \in 1..MaxCalls :
        pricingModule.calls[c].stage = "resolved" /\ ~Truthy(pricingModule.calls[c].value)

C30_WitnessError ==
    /\ View(app) = "error"
    /\ app.error = [message |-> "Failed to load pricing data: 404"]
    /\ pricingModule.cachedData = PricingFile
    /\ ~app.routerRendered

\* App's call failed without a message: the loading screen stays
C30_WitnessNoMessage ==
    /\ app.settled /\ pricingModule.calls[1] = RejectedCall("")
    /\ View(app) = "loading"

\* App's only request came back with status 200 and the body null: the call
\* resolved, the router rendered and getPricingData threw
C30_WitnessNull ==
    /\ pricingModule.requests = 1
    /\ pricingModule.calls[1] = ResolvedCall(NONE)
    /\ app.ready /\ app.routerRendered /\ app.threw

\* the data loaded by App's call was replaced when a call in flight settled,
\* and a call started afterwards returned the later data
C30_WitnessReplaced ==
    /\ pricingModule.calls[1] = ResolvedCall(PricingFile)
    /\ pricingModule.calls[2] = ResolvedCall(LaterPricingFile)
    /\ pricingModule.calls[3] = ResolvedCall(LaterPricingFile)
    /\ pricingModule.requests = 2
    /\ app.routerRendered /\ ~app.threw

-----------------------------------------------------------------------------
\* the definition named f applied to the arguments x
Call(f, x) ==
    CASE f = "BTrim" -> BTrim_body(x[1])
      [] f = "BFromInt" -> BFromInt_body(x[1])
      [] f = "BToInt" -> BToInt_body(x[1])
      [] f = "BAdd" -> BAdd_body(x[1], x[2])
      [] f = "BSub" -> BSub_body(x[1], x[2])
      [] f = "BMulSmall" -> BMulSmall_body(x[1], x[2])
      [] f = "BMul" -> BMul_body(x[1], x[2])
      [] f = "BDivSmall" -> BDivSmall_body(x[1], x[2])
      [] f = "BShl" -> BShl_body(x[1], x[2])
      [] f = "BShr" -> BShr_body(x[1], x[2])
      [] f = "BBitLen" -> BBitLen_body(x[1])
      [] f = "BBit" -> BBit_body(x[1], x[2])
      [] f = "BLowBits" -> BLowBits_body(x[1], x[2])
      [] f = "BTrailingZeros" -> BTrailingZeros_body(x[1])
      [] f = "BDivDigit" -> BDivDigit_body(x[1], x[2])
      [] f = "BDiv" -> BDiv_body(x[1], x[2])
      [] f = "Pack" -> Pack_body(x[1], x[2], x[3])
      [] f = "RoundNum" -> RoundNum_body(x[1], x[2], x[3], x[4])
      [] f = "R" -> R_body(x[1])
      [] f = "ExactSum" -> ExactSum_body(x[1], x[2])
      [] f = "RAdd" -> RAdd_body(x[1], x[2])
      [] f = "RSub" -> RSub_body(x[1], x[2])
      [] f = "RMul" -> RMul_body(x[1], x[2])
      [] f = "RDiv" -> RDiv_body(x[1], x[2])
      [] f = "Dec" -> Dec_body(x[1], x[2])
      [] f = "Compare" -> Compare_body(x[1], x[2])
      [] f = "RLt" -> RLt_body(x[1], x[2])
      [] f = "RLe" -> RLe_body(x[1], x[2])
      [] f = "Tolerance" -> Tolerance_body
      [] f = "Close" -> Close_body(x[1], x[2])
      [] f = "RMax" -> RMax_body(x[1], x[2])
      [] f = "RMin" -> RMin_body(x[1], x[2])
      [] f = "Per1k" -> Per1k_body(x[1])
      [] f = "Floor" -> Floor_body(x[1])
      [] f = "Round" -> Round_body(x[1])
      [] f = "GUARDRAILS_COST_PER_1K_UNITS" -> GUARDRAILS_COST_PER_1K_UNITS_body
      [] f = "getCacheWritePrice" -> getCacheWritePrice_body(x[1], x[2])
      [] f = "Breakdown" -> Breakdown_body(x[1], x[2], x[3], x[4])
      [] f = "computeStrategyA" -> computeStrategyA_body(x[1], x[2], x[3], x[4], x[5], x[6], x[7], x[8], x[9], x[10])
      [] f = "computeStrategyB" -> computeStrategyB_body(x[1], x[2], x[3], x[4], x[5], x[6], x[7], x[8], x[9], x[10], x[11])
      [] f = "computeNoCaching" -> computeNoCaching_body(x[1], x[2], x[3], x[4], x[5], x[6], x[7], x[8], x[9])
      [] f = "computeBatch" -> computeBatch_body(x[1], x[2], x[3], x[4], x[5], x[6], x[7], x[8], x[9])
      [] f = "computeGuardrailsCost" -> computeGuardrailsCost_body(x[1], x[2], x[3])
      [] f = "computeTokensPerExchange" -> computeTokensPerExchange_body(x[1])
      [] f = "computeAvgHistoryTokens" -> computeAvgHistoryTokens_body(x[1], x[2], x[3])
      [] f = "computeHistoryAtTurn" -> computeHistoryAtTurn_body(x[1], x[2], x[3])
      [] f = "getEffectiveInstTokens" -> getEffectiveInstTokens_body(x[1], x[2], x[3], x[4])
      [] f = "getEffectiveSubTokens" -> getEffectiveSubTokens_body(x[1], x[2], x[3])
      [] f = "computeSubTokensAtTurn" -> computeSubTokensAtTurn_body(x[1], x[2], x[3], x[4])
      [] f = "EmptySim" -> EmptySim_body
      [] f = "SimTurn" -> SimTurn_body(x[1], x[2], x[3], x[4], x[5])
      [] f = "SimLoop" -> SimLoop_body(x[1], x[2], x[3], x[4], x[5])
      [] f = "SimResult" -> SimResult_body(x[1], x[2], x[3], x[4], x[5])
      [] f = "simulateSummarization" -> simulateSummarization_body(x[1], x[2], x[3], x[4])
      [] f = "SumBreakdown" -> SumBreakdown_body(x[1], x[2], x[3], x[4], x[5])
      [] f = "SummarizationCalls" -> SummarizationCalls_body(x[1], x[2], x[3], x[4], x[5], x[6], x[7])
      [] f = "computeSumNoCaching" -> computeSumNoCaching_body(x[1], x[2], x[3], x[4], x[5], x[6], x[7], x[8], x[9], x[10])
      [] f = "computeSumCacheAssessment" -> computeSumCacheAssessment_body(x[1], x[2], x[3], x[4], x[5], x[6], x[7], x[8], x[9], x[10], x[11])
      [] f = "PerStudentStart" -> PerStudentStart_body
      [] f = "PerStudentTurn" -> PerStudentTurn_body(x[1], x[2], x[3], x[4], x[5], x[6], x[7], x[8], x[9], x[10])
      [] f = "PerStudentLoop" -> PerStudentLoop_body(x[1], x[2], x[3], x[4], x[5], x[6], x[7], x[8], x[9], x[10], x[11])
      [] f = "SumCacheSummaryReturn" -> SumCacheSummaryReturn_body(x[1], x[2], x[3], x[4], x[5], x[6], x[7], x[8], x[9], x[10], x[11], x[12])
      [] f = "computeSumCacheSummary" -> computeSumCacheSummary_body(x[1], x[2], x[3], x[4], x[5], x[6], x[7], x[8], x[9], x[10], x[11])
      [] f = "BreakEvenK" -> BreakEvenK_body(x[1], x[2], x[3], x[4], x[5], x[6])
      [] f = "computeSummarizationCost" -> computeSummarizationCost_body(x[1], x[2], x[3], x[4], x[5], x[6], x[7], x[8], x[9], x[10], x[11], x[12])
      [] f = "TEMPLATES" -> TEMPLATES_body(x[1])
      [] f = "ModelSonnet" -> ModelSonnet_body
      [] f = "ModelNova" -> ModelNova_body
      [] f = "ModelLlama" -> ModelLlama_body
      [] f = "ModelFlatRead" -> ModelFlatRead_body
      [] f = "Models" -> Models_body
      [] f = "TierMultiplier" -> TierMultiplier_body(x[1])
      [] f = "BatchIncluded" -> BatchIncluded_body(x[1])
      [] f = "EffectiveInstTokens" -> EffectiveInstTokens_body(x[1])
      [] f = "EffectiveSubTokens" -> EffectiveSubTokens_body(x[1])
      [] f = "GuardrailsCost" -> GuardrailsCost_body(x[1])
      [] f = "AddGuardrails" -> AddGuardrails_body(x[1], x[2])
      [] f = "Results" -> Results_body(x[1])
      [] f = "SummarizationResult" -> SummarizationResult_body(x[1], x[2])
      [] f = "SumStrategies" -> SumStrategies_body(x[1])
      [] f = "PriceLists" -> PriceLists_body
      [] f = "InitialModel" -> InitialModel_body(x[1])
      [] f = "MountState" -> MountState_body(x[1])
      [] f = "resetToTemplate" -> resetToTemplate_body(x[1], x[2])
      [] f = "TOKENS_PER_WORD" -> TOKENS_PER_WORD_body
      [] f = "WORDS_PER_TOKEN" -> WORDS_PER_TOKEN_body
      [] f = "WordsToTokens" -> WordsToTokens_body(x[1])
      [] f = "SENSITIVITY_SAMPLE_POINTS" -> SENSITIVITY_SAMPLE_POINTS_body(x[1])
      [] f = "GridPoints" -> GridPoints_body(x[1])
      [] f = "SamplePoints" -> SamplePoints_body(x[1], x[2])
      [] f = "Memos" -> Memos_body(x[1])
      [] f = "handleAssignmentWordsChange" -> handleAssignmentWordsChange_body(x[1], x[2])
      [] f = "handleStudentTextWordsChange" -> handleStudentTextWordsChange_body(x[1], x[2])
      [] f = "ComponentSum" -> ComponentSum_body(x[1])
      [] f = "PureRampAverage" -> PureRampAverage_body
      [] f = "Conversation" -> Conversation_body(x[1], x[2], x[3], x[4], x[5], x[6], x[7])
      [] f = "TieStates" -> TieStates_body
      [] f = "BreakEvenStates" -> BreakEvenStates_body
      [] f = "IsSumMode" -> IsSumMode_body(x[1])
      [] f = "PointCosts" -> PointCosts_body(x[1])
      [] f = "SortsBefore" -> SortsBefore_body(x[1], x[2], x[3])
      [] f = "Winner" -> Winner_body(x[1])
      [] f = "colorMap" -> colorMap_body(x[1])
      [] f = "SweepPoint" -> SweepPoint_body(x[1], x[2], x[3])
      [] f = "RawData" -> RawData_body(x[1])
      [] f = "Gap" -> Gap_body(x[1])
      [] f = "NearTie" -> NearTie_body(x[1])
      [] f = "Thousandths" -> Thousandths_body(x[1])
      [] f = "TwoKeyProfile" -> TwoKeyProfile_body(x[1], x[2])
      [] f = "FourKeyProfile" -> FourKeyProfile_body(x[1], x[2], x[3], x[4])
      [] f = "SumKeyProfile" -> SumKeyProfile_body(x[1], x[2], x[3])
      [] f = "TwoKeyProfiles" -> TwoKeyProfiles_body
      [] f = "FourKeyProfiles" -> FourKeyProfiles_body
      [] f = "SumKeyProfiles" -> SumKeyProfiles_body
      [] f = "SweepTables" -> SweepTables_body
      [] f = "DocTable" -> DocTable_body
      [] f = "SweepWorkloads" -> SweepWorkloads_body
      [] f = "ShortSubmissionWorkload" -> ShortSubmissionWorkload_body
      [] f = "InGrid" -> InGrid_body(x[1], x[2])
      [] f = "PriceListWithout" -> PriceListWithout_body(x[1], x[2])
      [] f = "FlatModels" -> FlatModels_body
      [] f = "FlatInputs" -> FlatInputs_body
      [] f = "FlatResults" -> FlatResults_body(x[1])
      [] f = "FlatSumResults" -> FlatSumResults_body(x[1])
      [] f = "NoCachingAt" -> NoCachingAt_body(x[1])
      [] f = "PassInputs" -> PassInputs_body
      [] f = "SpanCost" -> SpanCost_body(x[1], x[2], x[3])
      [] f = "CycleStates" -> CycleStates_body
      [] f = "CheapestTotal" -> CheapestTotal_body(x[1])
      [] f = "PricingFile" -> PricingFile_body
      [] f = "LaterPricingFile" -> LaterPricingFile_body
      [] f = "FetchStart" -> FetchStart_body(x[1], x[2])
      [] f = "FetchSettled" -> FetchSettled_body(x[1], x[2], x[3])
      [] f = "JsonSettled" -> JsonSettled_body(x[1], x[2], x[3])
      [] f = "getPricingData" -> getPricingData_body(x[1])

====
